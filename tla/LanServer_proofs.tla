-------------------------- MODULE LanServer_proofs --------------------------
(* Theorems about LanServer, for any connections, publishers and channels. *)
EXTENDS LanServer, TLAPS

USE DEF lockVars, acceptVars, readerVars, appVars, stopVars

LEMMA InitTypeOK == Init => TypeOK
<1>. SUFFICES ASSUME Init PROVE TypeOK
  OBVIOUS
<1>1. 0 \in 0..MaxValue /\ 0 \in 0..MaxLines
  BY LanAssumption
<1>2. /\ values \in [Channels -> 0..MaxValue]
      /\ chunk \in [Conns -> 0..MaxLines]
      /\ sent \in [Conns -> 0..MaxLines]
  BY <1>1 DEF Init
<1>4. got \in [Conns -> [Channels -> SUBSET (1..MaxValue)]]
  BY DEF Init
<1>5. newConn = NoConn /\ NoConn \notin Conns /\ acceptor = "accepting"
  BY LanAssumption DEF Init
<1>. QED
  BY <1>2, <1>4, <1>5 DEF Init, TypeOK

LEMMA StoreTypeOK ==
  ASSUME TypeOK, NEW th \in Threads, NEW ch \in Channels, StoreValue(th, ch)
  PROVE  values' \in [Channels -> 0..MaxValue] /\ todo' \in [Threads -> SUBSET Line]
<1>1. values[ch] + 1 \in 1..MaxValue
  BY LanAssumption DEF TypeOK, StoreValue
<1>2. client # NoConn => [to |-> client, channel |-> ch, value |-> values[ch] + 1] \in Line
  BY <1>1 DEF TypeOK, Line
<1>3. values' \in [Channels -> 0..MaxValue]
  BY <1>1, LanAssumption DEF TypeOK, StoreValue
<1>4. todo' \in [Threads -> SUBSET Line]
  BY <1>2 DEF TypeOK, StoreValue
<1>. QED
  BY <1>3, <1>4

LEMMA SendTypeOK ==
  ASSUME TypeOK, NEW th \in Threads, NEW line \in todo[th], SendLine(th, line)
  PROVE  TypeOK'
<1>1. line \in Line
  BY DEF TypeOK
<1>2. line.to \in Conns /\ line.channel \in Channels /\ line.value \in 1..MaxValue
  BY <1>1 DEF Line
<1>3. todo' \in [Threads -> SUBSET Line]
  BY DEF TypeOK, SendLine
<1>4. got' \in [Conns -> [Channels -> SUBSET (1..MaxValue)]]
  <2>1. CASE line.to \in closed
    BY <2>1 DEF TypeOK, SendLine
  <2>2. CASE line.to \notin closed
    <3>. DEFINE row == [got[line.to] EXCEPT ![line.channel] = @ \cup {line.value}]
    <3>1. got' = [got EXCEPT ![line.to] = row]
      BY <2>2 DEF SendLine
    <3>2. got[line.to] \in [Channels -> SUBSET (1..MaxValue)]
      BY <1>2 DEF TypeOK
    <3>3. row \in [Channels -> SUBSET (1..MaxValue)]
      BY <1>2, <3>2
    <3>. HIDE DEF row
    <3>. QED BY <3>1, <3>3 DEF TypeOK
  <2>. QED BY <2>1, <2>2
<1>. QED
  BY <1>3, <1>4 DEF TypeOK, SendLine

LEMMA SnapshotType ==
  ASSUME TypeOK, NEW c \in Conns
  PROVE  Snapshot(c) \subseteq Line
BY LanAssumption DEF TypeOK, Snapshot, Line

LEMMA NextTypeOK == TypeOK /\ [Next]_vars => TypeOK'
<1>. SUFFICES ASSUME TypeOK, [Next]_vars PROVE TypeOK'
  OBVIOUS
<1>. USE LanAssumption DEF TypeOK
<1>a. ASSUME AcceptStep  PROVE TypeOK'
  <2>1. ASSUME NEW c \in Conns, AcceptConn(c)  PROVE TypeOK'
    BY <2>1 DEF AcceptConn
  <2>2. ASSUME ReplaceClient  PROVE TypeOK'
    <3>1. newConn \in Conns
      BY <2>2 DEF ReplaceClient
    <3>2. todo' \in [Threads -> SUBSET Line]
      BY <2>2, <3>1, SnapshotType DEF ReplaceClient
    <3>. QED BY <2>2, <3>1, <3>2 DEF ReplaceClient
  <2>3. ASSUME CloseOld  PROVE TypeOK'
    BY <2>3 DEF CloseOld
  <2>4. ASSUME NEW line \in todo[Acceptor], SendLine(Acceptor, line)  PROVE TypeOK'
    BY <2>4, SendTypeOK DEF Threads
  <2>5. ASSUME StartReader  PROVE TypeOK'
    BY <2>5 DEF StartReader
  <2>6. ASSUME AcceptorExit  PROVE TypeOK'
    BY <2>6 DEF AcceptorExit
  <2>. QED BY <1>a, <2>1, <2>2, <2>3, <2>4, <2>5, <2>6 DEF AcceptStep
<1>b. ASSUME NEW c \in Conns, ReaderStep(c)  PROVE TypeOK'
  <2>1. ASSUME LoopTop(c)  PROVE TypeOK'
    BY <2>1 DEF LoopTop, Goto
  <2>2. ASSUME RecvLines(c)  PROVE TypeOK'
    BY <2>2 DEF RecvLines, Goto
  <2>3. ASSUME RecvEnd(c) \/ LinesHandled(c)  PROVE TypeOK'
    BY <2>3 DEF RecvEnd, LinesHandled, Goto
  <2>4. ASSUME NEW line \in todo[c], SendLine(c, line)  PROVE TypeOK'
    BY <2>4, SendTypeOK DEF Threads
  <2>5. ASSUME NextLine(c)  PROVE chunk' \in [Conns -> 0..MaxLines]
    BY <2>5 DEF NextLine
  <2>6. ASSUME HandleOther(c) \/ HandleWrite(c)  PROVE TypeOK'
    BY <2>5, <2>6 DEF HandleOther, HandleWrite, Goto
  <2>7. ASSUME NEW ch \in Channels, HandleGet(c, ch)  PROVE TypeOK'
    <3>1. values[ch] # 0 => [to |-> c, channel |-> ch, value |-> values[ch]] \in Line
      BY DEF Line
    <3>2. todo' \in [Threads -> SUBSET Line]
      BY <2>7, <3>1 DEF HandleGet
    <3>. QED BY <2>5, <2>7, <3>2 DEF HandleGet
  <2>8. ASSUME NEW ch \in Channels, StoreReply(c, ch)  PROVE TypeOK'
    <3>1. values' \in [Channels -> 0..MaxValue] /\ todo' \in [Threads -> SUBSET Line]
      BY <2>8, StoreTypeOK DEF StoreReply, Threads
    <3>. QED BY <2>8, <3>1 DEF StoreReply, Goto
  <2>9. ASSUME NoReply(c) \/ Unregister(c) \/ CloseConn(c)  PROVE TypeOK'
    BY <2>9 DEF NoReply, Unregister, CloseConn, Goto
  <2>. QED BY <1>b, <2>1, <2>2, <2>3, <2>4, <2>6, <2>7, <2>8, <2>9 DEF ReaderStep
<1>c. ASSUME NEW s \in Storers, StoreStep(s)  PROVE TypeOK'
  <2>1. ASSUME NEW ch \in Channels, Publish(s, ch)  PROVE TypeOK'
    <3>1. values' \in [Channels -> 0..MaxValue] /\ todo' \in [Threads -> SUBSET Line]
      BY <2>1, StoreTypeOK DEF Publish, Threads
    <3>. QED BY <2>1, <3>1 DEF Publish
  <2>2. ASSUME NEW line \in todo[s], SendLine(s, line)  PROVE TypeOK'
    BY <2>2, SendTypeOK DEF Threads
  <2>. QED BY <1>c, <2>1, <2>2 DEF StoreStep
<1>d. ASSUME StopStep  PROVE TypeOK'
  <2>1. CASE StopBegin
    BY <2>1 DEF StopBegin
  <2>2. CASE StopForgetClient
    BY <2>2 DEF StopForgetClient
  <2>3. CASE StopCloseClient
    BY <2>3 DEF StopCloseClient
  <2>4. CASE StopJoined
    BY <2>4 DEF StopJoined
  <2>. QED BY <1>d, <2>1, <2>2, <2>3, <2>4 DEF StopStep
<1>e. ASSUME NEW c \in Conns, AppConnect(c) \/ AppSend(c) \/ AppHangUp(c)  PROVE TypeOK'
  <2>1. CASE AppConnect(c)
    BY <2>1 DEF AppConnect, Goto
  <2>2. CASE AppSend(c)
    BY <2>2 DEF AppSend
  <2>3. CASE AppHangUp(c)
    BY <2>3 DEF AppHangUp
  <2>. QED BY <1>e, <2>1, <2>2, <2>3
<1>f. CASE UNCHANGED vars
  BY <1>f DEF vars
<1>. QED
  BY <1>a, <1>b, <1>c, <1>d, <1>e, <1>f DEF Next

(* Type correctness of the LAN server. *)
THEOREM TypeCorrect == Spec => []TypeOK
BY InitTypeOK, NextTypeOK, PTL DEF Spec

-----------------------------------------------------------------------------
(* A step that keeps the cache and the client, delivers at most some lines   *)
(* and drops none, keeps NoLostUpdate.                                       *)
LEMMA KeepsUpdates ==
  ASSUME TypeOK, NoLostUpdate,
         UNCHANGED <<values, client>>, closed \subseteq closed',
         \A th \in Threads : \A line \in todo[th] :
             line \in todo'[th] \/ line.to \in closed
                 \/ line.value \in got'[line.to][line.channel],
         \A c \in Conns, ch \in Channels : got[c][ch] \subseteq got'[c][ch]
  PROVE  NoLostUpdate'
<1>. SUFFICES ASSUME NEW ch \in PushChannels, client # NoConn, client \notin closed', values[ch] # 0
              PROVE  values[ch] \in got'[client][ch]
                     \/ \E th \in Threads :
                           [to |-> client, channel |-> ch, value |-> values[ch]] \in todo'[th]
  BY DEF NoLostUpdate, InFlight
<1>1. client \in Conns /\ client \notin closed /\ ch \in Channels
  BY LanAssumption DEF TypeOK
<1>2. CASE values[ch] \in got[client][ch]
  BY <1>1, <1>2
<1>3. CASE InFlight(client, ch, values[ch])
  BY <1>1, <1>3 DEF InFlight
<1>. QED
  BY <1>1, <1>2, <1>3 DEF NoLostUpdate

(* Storing a value: the new one is on its way to the client, the values of   *)
(* other channels are where they were.                                       *)
LEMMA StoreKeepsUpdates ==
  ASSUME TypeOK, NoLostUpdate, NEW th \in Threads, NEW ch \in Channels, StoreValue(th, ch),
         UNCHANGED <<client, closed, got>>
  PROVE  NoLostUpdate'
<1>. SUFFICES ASSUME NEW d \in PushChannels, client # NoConn, client \notin closed, values'[d] # 0
              PROVE  values'[d] \in got[client][d]
                     \/ \E t \in Threads :
                           [to |-> client, channel |-> d, value |-> values'[d]] \in todo'[t]
  BY DEF NoLostUpdate, InFlight
<1>1. client \in Conns /\ d \in Channels
  BY LanAssumption DEF TypeOK
<1>2. CASE d = ch
  <2>1. values'[d] = values[ch] + 1
    BY <1>1, <1>2 DEF StoreValue, TypeOK
  <2>2. todo'[th] = {[to |-> client, channel |-> ch, value |-> values[ch] + 1]}
    BY <1>1, <1>2 DEF StoreValue, TypeOK
  <2>. QED BY <1>2, <2>1, <2>2
<1>3. CASE d # ch
  <2>1. values'[d] = values[d]
    BY <1>1, <1>3 DEF StoreValue, TypeOK
  <2>2. \A t \in Threads : \A line \in todo[t] : line \in todo'[t]
    BY DEF StoreValue, TypeOK
  <2>. QED BY <1>1, <2>1, <2>2 DEF NoLostUpdate, InFlight
<1>. QED
  BY <1>2, <1>3

(* Sending takes a line from todo only once it arrived or its socket closed. *)
LEMMA SendKeepsUpdates ==
  ASSUME TypeOK, NoLostUpdate, NEW th \in Threads, NEW line \in todo[th], SendLine(th, line)
  PROVE  NoLostUpdate'
<1>1. line.to \in Conns /\ line.channel \in Channels
  BY DEF TypeOK, Line
<1>2. \A t \in Threads : \A l \in todo[t] : l \in todo'[t] \/ l = line
  BY DEF TypeOK, SendLine
<1>3. \A c \in Conns, ch \in Channels : got[c][ch] \subseteq got'[c][ch]
  <2>1. CASE line.to \in closed
    BY <2>1 DEF SendLine
  <2>2. CASE line.to \notin closed
    <3>. DEFINE row == [got[line.to] EXCEPT ![line.channel] = @ \cup {line.value}]
    <3>1. got' = [got EXCEPT ![line.to] = row]
      BY <2>2 DEF SendLine
    <3>2. got[line.to] \in [Channels -> SUBSET (1..MaxValue)] /\ got \in [Conns -> [Channels -> SUBSET (1..MaxValue)]]
      BY <1>1 DEF TypeOK
    <3>3. \A ch \in Channels : got[line.to][ch] \subseteq row[ch]
      BY <1>1, <3>2
    <3>. HIDE DEF row
    <3>. QED BY <3>1, <3>2, <3>3
  <2>. QED BY <2>1, <2>2
<1>4. line.to \in closed \/ line.value \in got'[line.to][line.channel]
  BY <1>1 DEF TypeOK, SendLine
<1>5. UNCHANGED <<values, client, closed>>
  BY DEF SendLine
<1>. QED
  BY <1>2, <1>3, <1>4, <1>5, KeepsUpdates

LEMMA NextNoLostUpdate == TypeOK /\ NoLostUpdate /\ [Next]_vars => NoLostUpdate'
<1>. SUFFICES ASSUME TypeOK, NoLostUpdate, [Next]_vars PROVE NoLostUpdate'
  OBVIOUS
<1>. USE LanAssumption
<1>t. Conns \subseteq Threads /\ Storers \subseteq Threads /\ Acceptor \in Threads
  BY DEF Threads
<1>k. ASSUME UNCHANGED <<values, client, todo, got>>, closed \subseteq closed'
      PROVE  NoLostUpdate'
  BY <1>k, KeepsUpdates
<1>1. ASSUME ReplaceClient  PROVE NoLostUpdate'
  <2>1. client' = newConn /\ newConn \in Conns /\ values' = values
    BY <1>1 DEF ReplaceClient, TypeOK
  <2>2. todo'[Acceptor] = Snapshot(newConn)
    BY <1>1 DEF ReplaceClient, TypeOK, Threads
  <2>3. \A ch \in PushChannels : values'[ch] # 0 =>
            [to |-> client', channel |-> ch, value |-> values'[ch]] \in todo'[Acceptor]
    BY <2>1, <2>2 DEF Snapshot
  <2>. QED BY <1>t, <2>3 DEF NoLostUpdate, InFlight
<1>2. ASSUME (\E c \in Conns : AcceptConn(c)) \/ CloseOld \/ StartReader \/ AcceptorExit
      PROVE  NoLostUpdate'
  BY <1>2, <1>k DEF AcceptConn, CloseOld, StartReader, AcceptorExit
<1>3. ASSUME NEW c \in Conns,
             LoopTop(c) \/ RecvLines(c) \/ RecvEnd(c) \/ LinesHandled(c) \/ HandleOther(c)
             \/ HandleWrite(c) \/ NoReply(c) \/ CloseConn(c)
      PROVE  NoLostUpdate'
  BY <1>3, <1>k DEF LoopTop, RecvLines, RecvEnd, LinesHandled, HandleOther, HandleWrite, NoReply,
     CloseConn
<1>4. ASSUME NEW c \in Conns, NEW ch \in Channels, HandleGet(c, ch)  PROVE NoLostUpdate'
  <2>1. \A t \in Threads : \A l \in todo[t] : l \in todo'[t]
    BY <1>4 DEF HandleGet, NextLine, TypeOK
  <2>2. UNCHANGED <<values, client, closed, got>>
    BY <1>4 DEF HandleGet
  <2>. QED BY <2>1, <2>2, KeepsUpdates
<1>5. ASSUME NEW c \in Conns, NEW ch \in Channels, StoreReply(c, ch)  PROVE NoLostUpdate'
  BY <1>5, StoreKeepsUpdates DEF StoreReply, Threads
<1>6. ASSUME NEW c \in Conns, Unregister(c)  PROVE NoLostUpdate'
  <2>1. client' = NoConn \/ client' = client
    BY <1>6 DEF Unregister
  <2>2. UNCHANGED <<values, todo, got, closed>>
    BY <1>6 DEF Unregister
  <2>3. CASE client' = NoConn
    BY <2>3 DEF NoLostUpdate
  <2>. QED BY <2>1, <2>2, <2>3, <1>k
<1>7. ASSUME NEW s \in Storers, NEW ch \in Channels, Publish(s, ch)  PROVE NoLostUpdate'
  BY <1>7, StoreKeepsUpdates DEF Publish, Threads
<1>8. ASSUME StopStep  PROVE NoLostUpdate'
  <2>1. CASE StopForgetClient
    BY <2>1 DEF StopForgetClient, NoLostUpdate
  <2>2. CASE StopBegin \/ StopCloseClient \/ StopJoined
    BY <2>2, <1>k DEF StopBegin, StopCloseClient, StopJoined
  <2>. QED BY <1>8, <2>1, <2>2 DEF StopStep
<1>9. ASSUME NEW c \in Conns, AppConnect(c) \/ AppSend(c) \/ AppHangUp(c)  PROVE NoLostUpdate'
  BY <1>9, <1>k DEF AppConnect, AppSend, AppHangUp
<1>10. ASSUME NEW th \in Threads, NEW line \in todo[th], SendLine(th, line)
       PROVE  NoLostUpdate'
  BY <1>10, SendKeepsUpdates
<1>11. CASE UNCHANGED vars
  BY <1>11, <1>k DEF vars
<1>12. ASSUME AcceptStep  PROVE NoLostUpdate'
  BY <1>12, <1>1, <1>2, <1>10 DEF AcceptStep, Threads
<1>13. ASSUME NEW c \in Conns, ReaderStep(c)  PROVE NoLostUpdate'
  BY <1>13, <1>3, <1>4, <1>5, <1>6, <1>10 DEF ReaderStep, Threads
<1>14. ASSUME NEW s \in Storers, StoreStep(s)  PROVE NoLostUpdate'
  BY <1>14, <1>7, <1>10 DEF StoreStep, Threads
<1>. QED
  BY <1>8, <1>9, <1>11, <1>12, <1>13, <1>14 DEF Next

(* The current client never misses the newest value of a pushed channel:     *)
(* connecting, publishing and replying may interleave as they like.          *)
THEOREM UpdatesReachClient == Spec => []NoLostUpdate
<1>1. Init => NoLostUpdate
  BY DEF Init, NoLostUpdate
<1>. QED
  BY <1>1, NextNoLostUpdate, TypeCorrect, PTL DEF Spec

-----------------------------------------------------------------------------
ServedInv == ClientIsServed /\ GenerationInv

LEMMA NextServed == TypeOK /\ ServedInv /\ [Next]_vars => ServedInv'
<1>. SUFFICES ASSUME TypeOK, ServedInv, [Next]_vars PROVE ServedInv'
  OBVIOUS
<1>. USE LanAssumption DEF TypeOK, ServedInv, ClientIsServed, GenerationInv
<1>1. ASSUME ReplaceClient  PROVE ServedInv'
  BY <1>1 DEF ReplaceClient
<1>2. ASSUME NEW c \in Conns, AcceptConn(c)  PROVE ServedInv'
  BY <1>2 DEF AcceptConn
<1>3. ASSUME CloseOld \/ AcceptorExit  PROVE ServedInv'
  BY <1>3 DEF CloseOld, AcceptorExit
<1>4. ASSUME StartReader  PROVE ServedInv'
  BY <1>4 DEF StartReader
<1>5. ASSUME NEW c \in Conns,
             LoopTop(c) \/ RecvLines(c) \/ RecvEnd(c) \/ LinesHandled(c)
      PROVE  ServedInv'
  BY <1>5 DEF LoopTop, RecvLines, RecvEnd, LinesHandled, Goto
<1>6. ASSUME NEW c \in Conns,
             HandleOther(c) \/ HandleWrite(c) \/ NoReply(c) \/ CloseConn(c)
             \/ \E ch \in Channels : HandleGet(c, ch) \/ StoreReply(c, ch)
      PROVE  ServedInv'
  BY <1>6 DEF HandleOther, HandleWrite, NoReply, CloseConn, HandleGet, StoreReply, NextLine, Goto
<1>7. ASSUME NEW c \in Conns, Unregister(c)  PROVE ServedInv'
  BY <1>7 DEF Unregister, Goto
<1>8. ASSUME NEW s \in Storers, NEW ch \in Channels, Publish(s, ch)  PROVE ServedInv'
  BY <1>8 DEF Publish
<1>9. ASSUME NEW th \in Threads, NEW line \in todo[th], SendLine(th, line)  PROVE ServedInv'
  BY <1>9 DEF SendLine
<1>10. ASSUME StopStep  PROVE ServedInv'
  BY <1>10 DEF StopStep, StopBegin, StopForgetClient, StopCloseClient, StopJoined
<1>11. ASSUME NEW c \in Conns, AppConnect(c) \/ AppSend(c) \/ AppHangUp(c)  PROVE ServedInv'
  BY <1>11 DEF AppConnect, AppSend, AppHangUp, Goto
<1>12. CASE UNCHANGED vars
  BY <1>12 DEF vars
<1>13. ASSUME AcceptStep  PROVE ServedInv'
  BY <1>13, <1>1, <1>2, <1>3, <1>4, <1>9 DEF AcceptStep, Threads
<1>14. ASSUME NEW c \in Conns, ReaderStep(c)  PROVE ServedInv'
  BY <1>14, <1>5, <1>6, <1>7, <1>9 DEF ReaderStep, Threads
<1>15. ASSUME NEW s \in Storers, StoreStep(s)  PROVE ServedInv'
  BY <1>15, <1>8, <1>9 DEF StoreStep, Threads
<1>. QED
  BY <1>10, <1>11, <1>12, <1>13, <1>14, <1>15 DEF Next

(* A registered client always has a thread that will unregister it. *)
THEOREM ClientAlwaysServed == Spec => []ClientIsServed
<1>1. Init => ServedInv
  BY DEF Init, ServedInv, ClientIsServed, GenerationInv
<1>2. Spec => []ServedInv
  BY <1>1, NextServed, TypeCorrect, PTL DEF Spec
<1>3. ServedInv => ClientIsServed
  BY DEF ServedInv
<1>. QED
  BY <1>2, <1>3, PTL

(* The reader of a kicked connection never unregisters its successor. *)
THEOREM KickedReaderSparesClient == Spec => OnlyOwnReaderClears
<1>. DEFINE Cleared == client # NoConn /\ client' = NoConn =>
                \/ reader[client] = "unregister" /\ reader'[client] = "close"
                \/ stopper = "stopping" /\ stopper' = "closing"
<1>1. ASSUME TypeOK, [Next]_vars  PROVE Cleared
  <2>. SUFFICES ASSUME client # NoConn, client' = NoConn
                PROVE  \/ reader[client] = "unregister" /\ reader'[client] = "close"
                       \/ stopper = "stopping" /\ stopper' = "closing"
    OBVIOUS
  <2>1. client \in Conns
    BY <1>1 DEF TypeOK
  <2>2. ASSUME NEW c \in Conns, Unregister(c)
        PROVE  reader[client] = "unregister" /\ reader'[client] = "close"
    BY <1>1, <2>1, <2>2 DEF Unregister, Goto, TypeOK
  <2>3. CASE AcceptStep
    BY <1>1, <2>3, LanAssumption DEF AcceptStep, AcceptConn, ReplaceClient, CloseOld, StartReader, AcceptorExit,
       SendLine, TypeOK
  <2>4. ASSUME NEW c \in Conns, ReaderStep(c), ~Unregister(c)  PROVE FALSE
    BY <2>4 DEF ReaderStep, LoopTop, RecvLines, RecvEnd, LinesHandled, SendLine, HandleOther,
       HandleWrite, NoReply, HandleGet, StoreReply, CloseConn
  <2>5. ASSUME NEW s \in Storers, StoreStep(s)  PROVE FALSE
    BY <2>5 DEF StoreStep, Publish, SendLine
  <2>6. CASE StopStep
    BY <2>6 DEF StopStep, StopBegin, StopForgetClient, StopCloseClient, StopJoined
  <2>7. ASSUME NEW c \in Conns, AppConnect(c) \/ AppSend(c) \/ AppHangUp(c)  PROVE FALSE
    BY <2>7 DEF AppConnect, AppSend, AppHangUp
  <2>8. CASE UNCHANGED vars
    BY <2>8 DEF vars
  <2>. QED
    BY <1>1, <2>2, <2>3, <2>4, <2>5, <2>6, <2>7, <2>8 DEF Next
<1>2. TypeOK /\ [Next]_vars => [Cleared]_vars
  BY <1>1
<1>. QED
  BY <1>2, TypeCorrect, PTL DEF Spec, OnlyOwnReaderClears
-----------------------------------------------------------------------------
(* Who closes a connection: the client is the only one that is not closed, or    *)
(* about to be by its reader, by the accept thread that replaced it, or by       *)
(* stop() that took it.                                                      *)
Accepted(c) == reader[c] \notin {"none", "backlog"}

OneOpenConnection ==
    \A c \in Conns :
        Accepted(c) =>
            \/ c = client
            \/ c = newConn /\ acceptor = "accepted"
            \/ c \in closed \/ c = oldConn \/ c = stopConn \/ reader[c] = "close"

(* A connection that became the client after stop() let the client go is never   *)
(* read from: its reader finds the stop event set before its first recv().      *)
LateClientIsUnserved ==
    stopper \in {"closing", "joining", "stopped"} /\ client # NoConn =>
        \/ client = newConn /\ acceptor \in {"replaced", "snapshot"}
        \/ reader[client] \in {"top", "unregister"}

(* What the accept thread and stop() hold between their steps. *)
HandsInv ==
    /\ stopper # "running" => stopSet
    /\ acceptor # "replaced" => oldConn = NoConn
    /\ stopper # "closing" => stopConn = NoConn
    /\ newConn # NoConn => reader[newConn] = "taken"

SocketInv == HandsInv /\ OneOpenConnection /\ LateClientIsUnserved

LEMMA NextSocket == TypeOK /\ ServedInv /\ SocketInv /\ [Next]_vars => SocketInv'
<1>. SUFFICES ASSUME TypeOK, ServedInv, SocketInv, [Next]_vars PROVE SocketInv'
  OBVIOUS
<1>. USE LanAssumption DEF TypeOK, SocketInv, HandsInv, OneOpenConnection, LateClientIsUnserved, Accepted
<1>1. ASSUME ReplaceClient  PROVE SocketInv'
  BY <1>1 DEF ReplaceClient
<1>2. ASSUME NEW c \in Conns, AcceptConn(c)  PROVE SocketInv'
  BY <1>2 DEF AcceptConn
<1>3. ASSUME CloseOld \/ AcceptorExit  PROVE SocketInv'
  BY <1>3 DEF CloseOld, AcceptorExit
<1>4. ASSUME StartReader  PROVE SocketInv'
  BY <1>4 DEF StartReader
<1>5. ASSUME NEW c \in Conns,
             LoopTop(c) \/ RecvLines(c) \/ RecvEnd(c) \/ LinesHandled(c)
      PROVE  SocketInv'
  <2>1. CASE LoopTop(c)
    <3>1. /\ reader[c] = "top"
          /\ reader' = [reader EXCEPT ![c] = IF stopSet \/ c \in closed THEN "unregister" ELSE "recv"]
          /\ UNCHANGED <<client, closed, acceptor, newConn, oldConn, stopSet, stopper, stopConn>>
      BY <2>1 DEF LoopTop, Goto
    <3>2. reader'[c] \in {"unregister", "recv"} /\ (stopSet => reader'[c] = "unregister")
      BY <3>1
    <3>3. \A d \in Conns \ {c} : reader'[d] = reader[d]
      BY <3>1
    <3>4. HandsInv'
      BY <3>1, <3>3
    <3>5. OneOpenConnection'
      BY <3>1, <3>2, <3>3
    <3>6. LateClientIsUnserved'
      BY <3>1, <3>2, <3>3
    <3>. QED
      BY <3>4, <3>5, <3>6
  <2>2. CASE RecvLines(c)
    BY <2>2 DEF RecvLines, Goto
  <2>3. CASE RecvEnd(c) \/ LinesHandled(c)
    BY <2>3 DEF RecvEnd, LinesHandled, Goto
  <2>. QED
    BY <1>5, <2>1, <2>2, <2>3
<1>6. ASSUME NEW c \in Conns,
             HandleOther(c) \/ HandleWrite(c) \/ NoReply(c) \/ CloseConn(c)
             \/ \E ch \in Channels : HandleGet(c, ch) \/ StoreReply(c, ch)
      PROVE  SocketInv'
  <2>1. CASE HandleOther(c) \/ \E ch \in Channels : HandleGet(c, ch)
    BY <2>1 DEF HandleOther, HandleGet, NextLine
  <2>2. CASE HandleWrite(c)
    <3>1. /\ reader[c] = "lines"
          /\ reader' = [reader EXCEPT ![c] = "calling"]
          /\ UNCHANGED <<client, closed, acceptor, newConn, oldConn, stopSet, stopper, stopConn>>
      BY <2>2 DEF HandleWrite, NextLine, Goto
    <3>. QED
      BY <3>1
  <2>3. CASE NoReply(c)
    BY <2>3 DEF NoReply, Goto
  <2>4. CASE \E ch \in Channels : StoreReply(c, ch)
    BY <2>4 DEF StoreReply, Goto
  <2>5. CASE CloseConn(c)
    BY <2>5 DEF CloseConn, Goto
  <2>. QED
    BY <1>6, <2>1, <2>2, <2>3, <2>4, <2>5
<1>7. ASSUME NEW c \in Conns, Unregister(c)  PROVE SocketInv'
  BY <1>7 DEF Unregister, Goto, ServedInv, GenerationInv
<1>8. ASSUME NEW s \in Storers, NEW ch \in Channels, Publish(s, ch)  PROVE SocketInv'
  BY <1>8 DEF Publish
<1>9. ASSUME NEW th \in Threads, NEW line \in todo[th], SendLine(th, line)  PROVE SocketInv'
  BY <1>9 DEF SendLine
<1>10. ASSUME StopStep  PROVE SocketInv'
  BY <1>10 DEF StopStep, StopBegin, StopForgetClient, StopCloseClient, StopJoined
<1>11. ASSUME NEW c \in Conns, AppConnect(c) \/ AppSend(c) \/ AppHangUp(c)  PROVE SocketInv'
  BY <1>11 DEF AppConnect, AppSend, AppHangUp, Goto
<1>12. CASE UNCHANGED vars
  BY <1>12 DEF vars
<1>13. ASSUME AcceptStep  PROVE SocketInv'
  BY <1>13, <1>1, <1>2, <1>3, <1>4, <1>9 DEF AcceptStep, Threads
<1>14. ASSUME NEW c \in Conns, ReaderStep(c)  PROVE SocketInv'
  BY <1>14, <1>5, <1>6, <1>7, <1>9 DEF ReaderStep, Threads
<1>15. ASSUME NEW s \in Storers, StoreStep(s)  PROVE SocketInv'
  BY <1>15, <1>8, <1>9 DEF StoreStep, Threads
<1>. QED
  BY <1>10, <1>11, <1>12, <1>13, <1>14, <1>15 DEF Next

(* At any time at most one accepted connection is open that nobody is about to    *)
(* close, the client; and once stop() has let the client go, a connection that    *)
(* the accept thread was just installing is closed without one of its commands    *)
(* being executed (_replace_client, _read_loop, stop of lan_server.py).          *)
THEOREM ConnectionsAreClosed == Spec => [](OneOpenConnection /\ LateClientIsUnserved)
<1>1. Init => SocketInv /\ ServedInv
  BY DEF Init, SocketInv, HandsInv, OneOpenConnection, LateClientIsUnserved, Accepted, ServedInv,
    ClientIsServed, GenerationInv
<1>2. SocketInv => OneOpenConnection /\ LateClientIsUnserved
  BY DEF SocketInv
<1>. QED
  BY TypeCorrect, NextServed, NextSocket, <1>1, <1>2, PTL DEF Spec
=============================================================================
