----------------------- MODULE Characteristics_proofs -----------------------
(* Theorems about Characteristics, for any kinds, texts and waiting updates,  *)
(* and about ZoneVoice, where the texts of one of them come from.            *)
EXTENDS Characteristics, SequenceTheorems, TLAPS

USE DEF AllKinds, appVars, HasNotify

-----------------------------------------------------------------------------
(* What the handlers do to the fields they all change.                       *)

(* Head and tail of a queue of texts, and the queue with one more. *)
LEMMA QueueOfTexts ==
    ASSUME NEW m \in Nat, NEW q \in Seq(1..m)
    PROVE  /\ q # <<>> => Head(q) \in 1..m /\ Tail(q) \in Seq(1..m)
           /\ q \in Seq(1..(m + 1))
           /\ Append(q, m + 1) \in Seq(1..(m + 1))
<1>1. q # <<>> => Head(q) \in 1..m /\ Tail(q) \in Seq(1..m)
  OBVIOUS
<1>2. q \in Seq(1..(m + 1))
  <2>1. Len(q) \in Nat /\ \A i \in 1..Len(q) : q[i] \in 1..(m + 1)
    OBVIOUS
  <2>. QED
    BY <2>1
<1>3. m + 1 \in 1..(m + 1)
  OBVIOUS
<1>. QED
  BY <1>1, <1>2, <1>3

(* Texts that were made stay texts that were made. *)
LEMMA MadeGrows ==
    ASSUME TypeOK, made' = made + 1
    PROVE  /\ made' \in 1..made' /\ made' \in 0..made' /\ made' # 0
           /\ value \in 1..made' /\ heard \in 0..made'
           /\ idle \in Seq(1..made')
           /\ read \in [head : 0..made', tail : 0..made']
           /\ made' \in Nat
<1>1. value \in 1..made /\ made \in Nat /\ heard \in 0..made
  BY DEF TypeOK
<1>2. idle \in Seq(1..made')
  BY QueueOfTexts DEF TypeOK
<1>3. read \in [head : 0..made', tail : 0..made']
  <2>1. read \in [head : 0..made, tail : 0..made]
    BY DEF TypeOK
  <2>2. 0..made \subseteq 0..made'
    BY <1>1
  <2>. QED
    BY <2>1, <2>2
<1>. QED
  BY <1>1, <1>2, <1>3

-----------------------------------------------------------------------------
LEMMA InitTypeOK == Init => TypeOK
<1>. SUFFICES ASSUME Init PROVE TypeOK
  OBVIOUS
<1>1. read \in [head : 0..made, tail : 0..made] /\ read.tail = 0
  BY DEF Init, NotRead
<1>2. ticking \in BOOLEAN
  BY DEF Init
<1>3. value \in 1..made /\ made \in Nat /\ heard \in 0..made /\ idle \in Seq(1..made)
  BY DEF Init
<1>. QED
  BY <1>1, <1>2, <1>3 DEF Init, TypeOK

LEMMA NextTypeOK == TypeOK /\ [Next]_vars => TypeOK'
<1>. SUFFICES ASSUME TypeOK, [Next]_vars PROVE TypeOK'
  OBVIOUS
<1>1. CASE Report
  <2>1. Append(idle, made') \in Seq(1..made')
    BY <1>1, QueueOfTexts DEF Report, MakeText, TypeOK
  <2>. QED
    BY <1>1, <2>1, MadeGrows DEF Report, MakeText, TypeOK
<1>2. ASSUME NEW notify \in BOOLEAN, Take(notify) PROVE TypeOK'
  <2>1. Head(idle) \in 1..made /\ Tail(idle) \in Seq(1..made)
    BY <1>2, QueueOfTexts DEF Take, TypeOK
  <2>2. Head(idle) \in 0..made /\ Head(idle) # 0
    BY <2>1 DEF TypeOK
  <2>. QED
    BY <1>2, <2>1, <2>2 DEF Take, Show, Emit, Hush, TypeOK
<1>3. CASE Update
  BY <1>2, <1>3 DEF Update, UpdateMonitor, UpdateBattery, UpdateEndpoint, ReportText
<1>4. value \in 0..made /\ value # 0
  BY DEF TypeOK
<1>5. CASE Tick
  BY <1>4, <1>5 DEF Tick, Emit, Hush, TypeOK
<1>6. CASE Reply
  BY <1>6, MadeGrows DEF Reply, MakeText, Show, Emit, Hush, TypeOK
<1>7. ASSUME HasNotify, StartNotify, UNCHANGED <<kind, idle, ticking, appVars>>,
             cccd' \in {"off", "on", "other"}
      PROVE  TypeOK'
  <2>1. CASE StartMonitor
    BY <1>4, <1>7, <2>1 DEF StartNotify, StartMonitor, Emit, TypeOK
  <2>2. CASE StartStatus
    BY <1>7, <2>2, MadeGrows DEF StartNotify, StartStatus, MakeText, Emit, TypeOK
  <2>3. CASE StartCommand \/ StatusFails
    BY <1>7, <2>3 DEF StartNotify, StartCommand, StatusFails, TypeOK
  <2>. QED
    BY <1>7, <2>1, <2>2, <2>3 DEF StartNotify
<1>8. CASE CallStartNotify
  BY <1>7, <1>8 DEF CallStartNotify, TypeOK
<1>9. CASE CallStopNotify
  BY <1>9 DEF CallStopNotify, StopNotify, TypeOK
<1>10. ASSUME NEW bits \in {"off", "on", "other"}, WriteCccd(bits) PROVE TypeOK'
  <2>1. CASE bits = "on"
    <3>1. HasNotify /\ StartNotify /\ cccd' \in {"off", "on", "other"}
      BY <1>10, <2>1 DEF WriteCccd
    <3>2. UNCHANGED <<kind, idle, ticking, appVars>>
      BY <1>10, <2>1 DEF WriteCccd
    <3>. QED
      BY <1>7, <3>1, <3>2
  <2>2. CASE bits = "off"
    BY <1>10, <2>2 DEF WriteCccd, StopNotify, TypeOK
  <2>3. CASE bits = "other"
    BY <1>10, <2>3 DEF WriteCccd, TypeOK
  <2>. QED
    BY <2>1, <2>2, <2>3
<1>11. CASE ReadHead
  <2>1. read' \in [head : 0..made, tail : 0..made] /\ read'.tail = 0
    BY <1>4, <1>11 DEF ReadHead, TypeOK
  <2>. QED
    BY <1>11, <2>1 DEF ReadHead, TypeOK
<1>12. CASE ReadTail
  <2>1. read' \in [head : 0..made, tail : 0..made]
    BY <1>4, <1>12 DEF ReadTail, TypeOK
  <2>. QED
    BY <1>12, <2>1 DEF ReadTail, TypeOK
<1>13. CASE UNCHANGED vars
  BY <1>13 DEF vars, TypeOK
<1>. QED
  BY <1>1, <1>3, <1>5, <1>6, <1>8, <1>9, <1>10, <1>11, <1>12, <1>13 DEF Next, Handler

(* No sequence of updates, replies, subscriptions and reads takes a            *)
(* characteristic out of its type, and an endpoint never notifies             *)
(* (gatt_server.py:125-1177).                                                *)
THEOREM TypeCorrect == Spec => []TypeOK
<1>1. Init => TypeOK
  BY InitTypeOK
<1>2. TypeOK /\ [Next]_vars => TypeOK'
  BY NextTypeOK
<1>. QED
  BY <1>1, <1>2, PTL DEF Spec

-----------------------------------------------------------------------------
LEMMA NextCurrent == TypeOK /\ SubscriberIsCurrent /\ [Next]_vars => SubscriberIsCurrent'
<1>. SUFFICES ASSUME TypeOK, SubscriberIsCurrent, [Next]_vars PROVE SubscriberIsCurrent'
  OBVIOUS
<1>. USE DEF SubscriberIsCurrent
<1>1. CASE Report
  BY <1>1 DEF Report
<1>2. CASE Update
  BY <1>2 DEF Update, UpdateMonitor, UpdateBattery, UpdateEndpoint, ReportText, Take, Show, Emit,
              Hush, TypeOK
<1>3. CASE Tick
  BY <1>3 DEF Tick, Emit, Hush
<1>4. CASE Reply
  BY <1>4 DEF Reply, Show, Emit, Hush
<1>5. ASSUME StartNotify, UNCHANGED kind PROVE SubscriberIsCurrent'
  BY <1>5 DEF StartNotify, StartMonitor, StartStatus, StatusFails, StartCommand, Emit
<1>6. CASE CallStartNotify \/ CallStopNotify
  BY <1>5, <1>6 DEF CallStartNotify, CallStopNotify, StopNotify
<1>7. ASSUME NEW bits \in {"off", "on", "other"}, WriteCccd(bits) PROVE SubscriberIsCurrent'
  <2>1. UNCHANGED kind
    BY <1>7 DEF WriteCccd
  <2>2. CASE bits = "on"
    BY <1>5, <1>7, <2>1, <2>2 DEF WriteCccd
  <2>3. CASE bits = "off"
    BY <1>7, <2>1, <2>3 DEF WriteCccd, StopNotify
  <2>4. CASE bits = "other"
    <3>1. UNCHANGED <<value, notifying, heard, told, quiet, watched>>
      BY <1>7, <2>4, Zenon DEF WriteCccd, StopNotify
    <3>. QED
      BY <2>1, <3>1, Zenon
  <2>. QED
    BY <2>2, <2>3, <2>4
<1>8. CASE ReadHead \/ ReadTail
  BY <1>8 DEF ReadHead, ReadTail
<1>9. CASE UNCHANGED vars
  BY <1>9 DEF vars
<1>. QED
  BY <1>1, <1>2, <1>3, <1>4, <1>6, <1>7, <1>8, <1>9 DEF Next, Handler

(* Who listens has heard what a read would give, for any number of updates     *)
(* waiting and texts made.                                                   *)
THEOREM ListenersAreCurrent == Spec => []SubscriberIsCurrent
<1>1. Init => SubscriberIsCurrent
  BY DEF Init, SubscriberIsCurrent
<1>2. TypeOK /\ SubscriberIsCurrent /\ [Next]_vars => SubscriberIsCurrent'
  BY NextCurrent
<1>. QED
  BY <1>1, <1>2, TypeCorrect, PTL DEF Spec

-----------------------------------------------------------------------------
(* While an App has listened since its read began, either it was notified      *)
(* since and has heard the value, or the value is what the read began with.   *)
ReadInv ==
    watched /\ kind # "battery" =>
        /\ notifying
        /\ told => heard = value
        /\ ~told => read.head = value /\ read.tail \in {0, value}

LEMMA NextRead == TypeOK /\ ReadInv /\ [Next]_vars => ReadInv'
<1>. SUFFICES ASSUME TypeOK, ReadInv, [Next]_vars PROVE ReadInv'
  OBVIOUS
<1>. USE DEF ReadInv
<1>1. CASE Report
  BY <1>1 DEF Report
<1>2. CASE Update
  BY <1>2 DEF Update, UpdateMonitor, UpdateBattery, UpdateEndpoint, ReportText, Take, Show, Emit,
              Hush, TypeOK
<1>3. CASE Tick
  BY <1>3 DEF Tick, Emit, Hush
<1>4. CASE Reply
  BY <1>4 DEF Reply, Show, Emit, Hush
<1>5. ASSUME StartNotify, UNCHANGED <<kind, appVars>> PROVE ReadInv'
  BY <1>5 DEF StartNotify, StartMonitor, StartStatus, StatusFails, StartCommand, Emit
<1>6. CASE CallStartNotify \/ CallStopNotify
  BY <1>5, <1>6 DEF CallStartNotify, CallStopNotify, StopNotify
<1>7. ASSUME NEW bits \in {"off", "on", "other"}, WriteCccd(bits) PROVE ReadInv'
  <2>1. UNCHANGED <<kind, read>>
    BY <1>7 DEF WriteCccd
  <2>2. CASE bits = "on"
    BY <1>5, <1>7, <2>1, <2>2 DEF WriteCccd
  <2>3. CASE bits = "off"
    BY <1>7, <2>1, <2>3 DEF WriteCccd, StopNotify
  <2>4. CASE bits = "other"
    <3>1. UNCHANGED <<value, notifying, heard, told, quiet, watched>>
      BY <1>7, <2>4, Zenon DEF WriteCccd, StopNotify
    <3>. QED
      BY <2>1, <3>1, Zenon
  <2>. QED
    BY <2>2, <2>3, <2>4
<1>8. CASE ReadHead
  BY <1>8 DEF ReadHead
<1>9. CASE ReadTail
  <2>1. read'.head = read.head /\ read'.tail = value
    BY <1>9 DEF ReadTail, TypeOK
  <2>. QED
    BY <1>9, <2>1 DEF ReadTail
<1>10. CASE UNCHANGED vars
  BY <1>10 DEF vars
<1>. QED
  BY <1>1, <1>2, <1>3, <1>4, <1>6, <1>7, <1>8, <1>9, <1>10 DEF Next, Handler

(* Whoever listened during a read of two parts that joins two texts was        *)
(* notified of the text that is current.                                     *)
THEOREM TornReadersAreTold == Spec => []TornReadIsTold
<1>1. Init => ReadInv
  BY DEF Init, ReadInv
<1>2. TypeOK /\ ReadInv /\ [Next]_vars => ReadInv'
  BY NextRead
<1>3. ReadInv => TornReadIsTold
  BY DEF ReadInv, TornReadIsTold, Torn
<1>. QED
  BY <1>1, <1>2, <1>3, TypeCorrect, PTL DEF Spec

-----------------------------------------------------------------------------
(* ZoneVoice, for any audios, LAN readers and failures.  Its queue of updates  *)
(* holds statuses, not numbers of texts.                                     *)
CONSTANTS Audios, Poller, Glib, LanReaders, NoThread, MaxFailures
VARIABLES player, failures, lock, last, pc, asksStatus, got, server, ble, lan, waiting, stopEvent

Zone == INSTANCE ZoneVoice WITH idle <- waiting

(* A poll asks for the status and nothing else, so that what the poller is     *)
(* about to tell is a status: never the text of a list or of an error.       *)
PollerInv ==
    /\ pc[Poller] = "asked" => asksStatus[Poller] /\ got[Poller] \in Zone!Statuses
    /\ pc[Poller] \in {"tell", "tellLan"} => got[Poller] \in Zone!Texts

(* The lock is held by the one thread that waits for the player's response.  *)
LockIsInUse == \A t \in Zone!Threads : pc[t] = "asked" <=> lock = t

ZoneInv == Zone!TypeOK /\ PollerInv /\ LockIsInUse

LEMMA ZoneInit == Zone!ZoneVoiceConstants /\ Zone!Init => ZoneInv
<1>. SUFFICES ASSUME Zone!ZoneVoiceConstants, Zone!Init PROVE ZoneInv
  OBVIOUS
<1>. USE DEF Zone!ZoneVoiceConstants, Zone!Init, Zone!Threads
<1>1. PollerInv
  BY DEF PollerInv
<1>2. LockIsInUse
  BY DEF LockIsInUse
<1>3. waiting \in Seq(Zone!Texts) /\ server \in {"none", "serving", "ended"}
  OBVIOUS
<1>4. /\ pc \in [Zone!Threads -> {"check", "idle", "want", "asked", "tell", "tellLan", "done"}]
      /\ asksStatus \in [Zone!Threads -> BOOLEAN]
      /\ got \in [Zone!Threads -> Zone!Texts \cup {"OTHER", "none"}]
  OBVIOUS
<1>5. player \in Zone!Statuses /\ failures \in Nat /\ lock = NoThread /\ stopEvent \in BOOLEAN
  OBVIOUS
<1>. QED
  BY <1>1, <1>2, <1>3, <1>4, <1>5 DEF ZoneInv, Zone!TypeOK

(* What the player does, once it has been asked. *)
LEMMA ZoneAfter ==
    ASSUME Zone!TypeOK, NEW t \in Zone!Threads, NEW v \in Zone!VerbsOf(t)
    PROVE  Zone!After(v) \in Zone!Statuses
BY DEF Zone!After, Zone!VerbsOf, Zone!Verbs, Zone!Statuses, Zone!TypeOK

(* What a thread reports, when a request for the status is answered by one.  *)
LEMMA ZoneReported ==
    ASSUME Zone!TypeOK, NEW t \in Zone!Threads, NEW ok \in BOOLEAN
    PROVE  /\ Zone!Reported(t, ok) \in Zone!Texts \cup {"OTHER", "none"}
           /\ asksStatus[t] /\ got[t] \in Zone!Statuses => Zone!Reported(t, ok) \in Zone!Texts
           /\ Zone!Response(t, ok) => failures' \in Nat
BY DEF Zone!Reported, Zone!Response, Zone!Texts, Zone!TypeOK

(* Each step of a thread, of the player and of the bridge keeps it. *)
LEMMA ZoneNext ==
    Zone!ZoneVoiceConstants /\ ZoneInv /\ [Zone!Next]_(Zone!vars) => ZoneInv'
<1>. SUFFICES ASSUME Zone!ZoneVoiceConstants, ZoneInv, [Zone!Next]_(Zone!vars)
              PROVE  ZoneInv'
  OBVIOUS
<1>. USE DEF ZoneInv, PollerInv, LockIsInUse, Zone!TypeOK, Zone!Goto, Zone!transports
<1>0. /\ Poller \in Zone!Threads /\ Glib \in Zone!Threads /\ Poller # Glib
      /\ NoThread \notin Zone!Threads
      /\ Zone!Clients = Zone!Threads \ {Poller}
      /\ LanReaders \subseteq Zone!Clients /\ Glib \in Zone!Clients
      /\ "IDLE" \in Zone!Statuses /\ Zone!Statuses \subseteq Zone!Texts
      /\ Zone!Texts \cap {"none", "OTHER"} = {}
  BY DEF Zone!ZoneVoiceConstants, Zone!Threads, Zone!Clients, Zone!Statuses, Zone!Texts
<1>1. CASE Zone!PlayerChanges
  BY <1>1 DEF Zone!PlayerChanges
<1>2. ASSUME NEW t \in Zone!Clients, Zone!Request(t) PROVE ZoneInv'
  BY <1>0, <1>2 DEF Zone!Request
<1>3. ASSUME NEW t \in Zone!Clients, Zone!Answer(t) PROVE ZoneInv'
  <2>1. PICK ok \in BOOLEAN :
          /\ Zone!Response(t, ok)
          /\ got' = [got EXCEPT ![t] = Zone!Reported(t, ok)]
          /\ last' = IF got'[t] = "OTHER" THEN last ELSE got'[t]
    BY <1>3 DEF Zone!Answer
  <2>2. /\ failures' \in Nat
        /\ got' \in [Zone!Threads -> Zone!Texts \cup {"OTHER", "none"}]
        /\ last' \in Zone!Texts \cup {"none"}
    BY <1>0, <2>1, ZoneReported
  <2>3. PollerInv'
    BY <1>0, <1>3, <2>1 DEF Zone!Answer
  <2>4. LockIsInUse'
    BY <1>0, <1>3 DEF Zone!Answer
  <2>. QED
    BY <1>0, <1>3, <2>2, <2>3, <2>4 DEF Zone!Answer
<1>4. CASE Zone!ReplyBle
  BY <1>0, <1>4 DEF Zone!ReplyBle
<1>5. ASSUME NEW t \in Zone!Clients, Zone!ReplyLan(t) PROVE ZoneInv'
  BY <1>0, <1>5 DEF Zone!ReplyLan
<1>6. ASSUME NEW t \in Zone!Threads, Zone!Ask(t) PROVE ZoneInv'
  <2>1. PICK v \in Zone!VerbsOf(t) :
          /\ asksStatus' = [asksStatus EXCEPT ![t] = v = "status"]
          /\ \/ /\ player' = Zone!After(v)
                /\ got' = [got EXCEPT ![t] = IF v = "list" THEN "OTHER" ELSE player']
             \/ /\ v \in Audios \cup {"stop"}
                /\ player' = player
                /\ got' = [got EXCEPT ![t] = "OTHER"]
    BY <1>6 DEF Zone!Ask
  <2>2. player' \in Zone!Statuses
    BY <2>1, ZoneAfter
  <2>3. /\ got' \in [Zone!Threads -> Zone!Texts \cup {"OTHER", "none"}]
        /\ asksStatus' \in [Zone!Threads -> BOOLEAN]
    BY <1>0, <2>1, <2>2
  <2>4. t = Poller => v = "status"
    BY DEF Zone!VerbsOf
  <2>5. PollerInv'
    <3>1. CASE t = Poller
      <4>1. "status" \notin Audios \cup {"stop"}
        BY DEF Zone!ZoneVoiceConstants
      <4>2. asksStatus'[Poller] /\ got'[Poller] = player'
        BY <1>0, <2>1, <2>4, <3>1, <4>1
      <4>. QED
        BY <1>0, <1>6, <2>2, <3>1, <4>2 DEF Zone!Ask
    <3>2. CASE t # Poller
      BY <1>0, <1>6, <2>1, <3>2 DEF Zone!Ask
    <3>. QED
      BY <3>1, <3>2
  <2>6. LockIsInUse'
    BY <1>0, <1>6 DEF Zone!Ask
  <2>. QED
    BY <1>0, <1>6, <2>2, <2>3, <2>5, <2>6 DEF Zone!Ask
<1>7. CASE Zone!Poll
  BY <1>0, <1>7 DEF Zone!Poll
<1>8. CASE Zone!Polled
  <2>1. PICK ok \in BOOLEAN : Zone!Response(Poller, ok) /\ last' = Zone!Reported(Poller, ok)
    BY <1>8 DEF Zone!Polled
  <2>2. failures' \in Nat /\ last' \in Zone!Texts
    BY <1>0, <1>8, <2>1, ZoneReported DEF Zone!Polled
  <2>3. PollerInv'
    BY <1>0, <1>8, <2>2 DEF Zone!Polled
  <2>4. LockIsInUse'
    BY <1>0, <1>8 DEF Zone!Polled
  <2>. QED
    BY <1>0, <1>8, <2>2, <2>3, <2>4 DEF Zone!Polled
<1>9. CASE Zone!PollerTellsBle
  BY <1>0, <1>9 DEF Zone!PollerTellsBle
<1>10. CASE Zone!PollerTellsLan
  BY <1>0, <1>10 DEF Zone!PollerTellsLan
<1>11. CASE Zone!UpdateBle
  BY <1>11 DEF Zone!UpdateBle
<1>12. CASE Zone!StopServer
  BY <1>12 DEF Zone!StopServer
<1>13. CASE Zone!Stop
  BY <1>13 DEF Zone!Stop
<1>14. CASE UNCHANGED Zone!vars
  BY <1>14 DEF Zone!vars
<1>. QED
  BY <1>1, <1>2, <1>3, <1>4, <1>5, <1>6, <1>7, <1>8, <1>9, <1>10, <1>11, <1>12, <1>13, <1>14
  DEF Zone!Next, Zone!ClientStep, Zone!PollerStep

(* Type correctness of ZoneVoice, for any audios and any LAN readers: what is  *)
(* told to either transport, and what is remembered as told, is a status.    *)
THEOREM ZoneTypeCorrect ==
    ASSUME Zone!ZoneVoiceConstants
    PROVE  Zone!Spec => []Zone!TypeOK
BY ZoneInit, ZoneNext, PTL DEF ZoneInv, Zone!Spec

(* Requests to the player are made one at a time, and no thread keeps the      *)
(* lock without a response to wait for: none returns with it, and none waits   *)
(* for it in vain because of one that did.                                   *)
THEOREM ZoneLockIsInUse ==
    ASSUME Zone!ZoneVoiceConstants
    PROVE  Zone!Spec => []LockIsInUse
BY ZoneInit, ZoneNext, PTL DEF ZoneInv, Zone!Spec
=============================================================================
