------------------------------ MODULE LanServer ------------------------------
(***************************************************************************)
(* The LAN control server (src/xiaozhi_ble/lan_server.py): one cached value *)
(* per channel, one current client, an accept thread, a reader thread per   *)
(* connection and any number of threads that publish values.                *)
(*                                                                         *)
(* A value is the number of times its channel was stored, so that stale and *)
(* newer are told apart; what a line says is left out.  Everything the lock *)
(* covers is one step; every send, close and callback is a step of its own. *)
(***************************************************************************)
EXTENDS Naturals, FiniteSets

CONSTANTS
    Conns,         \* the TCP connections that can ever be made
    Storers,       \* threads that publish values (pollers, waiters, GLib, ...)
    Channels,      \* channel names
    PushChannels,  \* PUSH_CHANNELS: those a client is notified of
    Acceptor,      \* the accept thread
    NoConn,        \* no connection
    MaxValue,      \* bound: how often a channel is stored
    MaxLines       \* bound: lines in flight from one client

Threads == Storers \cup Conns \cup {Acceptor}

ASSUME LanAssumption ==
    /\ PushChannels \subseteq Channels
    /\ NoConn \notin Conns
    /\ Acceptor \notin Storers \cup Conns
    /\ Storers \cap Conns = {}
    /\ MaxValue \in Nat
    /\ MaxLines \in Nat

VARIABLES
    values,      \* _values: the cached value of each channel, 0 for none
    client,      \* _client
    generation,  \* _generation
    stopSet,     \* _stop_event, set together with closing the listener
    closed,      \* connections whose socket object was closed here
    todo,        \* lines each thread has still to send
    acceptor,    \* where the accept thread is
    newConn,     \* the connection the accept thread is installing
    oldConn,     \* the client it replaces
    reader,      \* where each connection's reader thread is
    genOf,       \* the generation each reader was started with
    chunk,       \* received lines a reader has still to handle
    sent,        \* lines the App sent that no recv() returned yet
    hungUp,      \* connections the App closed
    stopper,     \* where the main thread is in stop()
    stopConn,    \* the client stop() has still to close
    got          \* the values of each channel that reached each App

vars == <<values, client, generation, stopSet, closed, todo, acceptor, newConn, oldConn,
          reader, genOf, chunk, sent, hungUp, stopper, stopConn, got>>

lockVars == <<values, client, generation>>
acceptVars == <<acceptor, newConn, oldConn>>
readerVars == <<reader, genOf, chunk>>
appVars == <<sent, hungUp>>
stopVars == <<stopSet, stopper, stopConn>>

Line == [to : Conns, channel : Channels, value : 1..MaxValue]

TypeOK ==
    /\ values \in [Channels -> 0..MaxValue]
    /\ client \in Conns \cup {NoConn}
    /\ generation \in Nat
    /\ stopSet \in BOOLEAN
    /\ closed \in SUBSET Conns
    /\ todo \in [Threads -> SUBSET Line]
    /\ acceptor \in {"accepting", "accepted", "replaced", "snapshot", "exited"}
    /\ newConn \in Conns \cup {NoConn}
    /\ acceptor \in {"accepted", "replaced", "snapshot"} <=> newConn \in Conns
    /\ oldConn \in Conns \cup {NoConn}
    /\ reader \in [Conns -> {"none", "backlog", "taken", "top", "recv", "lines", "calling",
                             "unregister", "close", "done"}]
    /\ genOf \in [Conns -> Nat]
    /\ chunk \in [Conns -> 0..MaxLines]
    /\ sent \in [Conns -> 0..MaxLines]
    /\ hungUp \in SUBSET Conns
    /\ stopper \in {"running", "stopping", "closing", "joining", "stopped"}
    /\ stopConn \in Conns \cup {NoConn}
    /\ got \in [Conns -> [Channels -> SUBSET (1..MaxValue)]]

Init ==
    /\ values = [ch \in Channels |-> 0]
    /\ client = NoConn
    /\ generation = 0
    /\ stopSet = FALSE
    /\ closed = {}
    /\ todo = [th \in Threads |-> {}]
    /\ acceptor = "accepting"
    /\ newConn = NoConn
    /\ oldConn = NoConn
    /\ reader = [c \in Conns |-> "none"]
    /\ genOf = [c \in Conns |-> 0]
    /\ chunk = [c \in Conns |-> 0]
    /\ sent = [c \in Conns |-> 0]
    /\ hungUp = {}
    /\ stopper = "running"
    /\ stopConn = NoConn
    /\ got = [c \in Conns |-> [ch \in Channels |-> {}]]

-----------------------------------------------------------------------------
(* sendall: a line to a closed socket is lost, any other reaches the App. *)
SendLine(th, line) ==
    /\ line \in todo[th]
    /\ todo' = [todo EXCEPT ![th] = @ \ {line}]
    /\ IF line.to \in closed
         THEN got' = got
         ELSE got' = [got EXCEPT ![line.to][line.channel] = @ \cup {line.value}]
    /\ UNCHANGED <<lockVars, closed, acceptVars, readerVars, appVars, stopVars>>

(* The locked part of _store: cache the value, remember whom to push it to. *)
StoreValue(th, ch) ==
    /\ todo[th] = {}
    /\ values[ch] < MaxValue
    /\ values' = [values EXCEPT ![ch] = @ + 1]
    /\ todo' = [todo EXCEPT ![th] =
                   IF ch \in PushChannels /\ client # NoConn
                     THEN {[to |-> client, channel |-> ch, value |-> values[ch] + 1]}
                     ELSE {}]

(* A provider, a waiter or a timer publishes (set_..., notify_...). *)
Publish(s, ch) ==
    /\ StoreValue(s, ch)
    /\ UNCHANGED <<client, generation, closed, acceptVars, readerVars, appVars, stopVars, got>>

-----------------------------------------------------------------------------
(* The accept thread. *)
AcceptConn(c) ==
    /\ acceptor = "accepting"
    /\ ~stopSet
    /\ reader[c] = "backlog"
    /\ acceptor' = "accepted"
    /\ newConn' = c
    /\ reader' = [reader EXCEPT ![c] = "taken"]
    /\ UNCHANGED <<lockVars, closed, todo, oldConn, genOf, chunk, appVars, stopVars, got>>

(* Faulty variant: the snapshot leaves the pushed channels to the next push. *)
SnapshotUnpushed(c) ==
    {[to |-> c, channel |-> ch, value |-> values[ch]] :
        ch \in {d \in Channels \ PushChannels : values[d] # 0}}

(* The lines of the snapshot a new client is sent. *)
Snapshot(c) ==
    {[to |-> c, channel |-> ch, value |-> values[ch]] : ch \in {d \in Channels : values[d] # 0}}

(* Faulty variant: the reader gets the generation before the increment. *)
ReplaceClientOldGeneration ==
    /\ acceptor = "accepted"
    /\ oldConn' = client
    /\ client' = newConn
    /\ generation' = generation + 1
    /\ genOf' = [genOf EXCEPT ![newConn] = generation]
    /\ todo' = [todo EXCEPT ![Acceptor] = Snapshot(newConn)]
    /\ acceptor' = "replaced"
    /\ UNCHANGED <<values, closed, newConn, reader, chunk, appVars, stopVars, got>>

(* The locked part of _replace_client. *)
ReplaceClient ==
    /\ acceptor = "accepted"
    /\ oldConn' = client
    /\ client' = newConn
    /\ generation' = generation + 1
    /\ genOf' = [genOf EXCEPT ![newConn] = generation + 1]
    /\ todo' = [todo EXCEPT ![Acceptor] = Snapshot(newConn)]
    /\ acceptor' = "replaced"
    /\ UNCHANGED <<values, closed, newConn, reader, chunk, appVars, stopVars, got>>

CloseOld ==
    /\ acceptor = "replaced"
    /\ closed' = closed \cup ({oldConn} \ {NoConn})
    /\ oldConn' = NoConn
    /\ acceptor' = "snapshot"
    /\ UNCHANGED <<lockVars, todo, newConn, readerVars, appVars, stopVars, got>>

StartReader ==
    /\ acceptor = "snapshot"
    /\ todo[Acceptor] = {}
    /\ reader' = [reader EXCEPT ![newConn] = "top"]
    /\ newConn' = NoConn
    /\ acceptor' = "accepting"
    /\ UNCHANGED <<lockVars, closed, todo, oldConn, genOf, chunk, appVars, stopVars, got>>

AcceptorExit ==
    /\ acceptor = "accepting"
    /\ stopSet
    /\ acceptor' = "exited"
    /\ UNCHANGED <<lockVars, closed, todo, newConn, oldConn, readerVars, appVars, stopVars, got>>

-----------------------------------------------------------------------------
(* A reader thread (_read_loop). *)
Goto(c, place) == reader' = [reader EXCEPT ![c] = place]

(* Faulty variant: the loop does not look at the stop event. *)
LoopTopForever(c) ==
    /\ reader[c] = "top"
    /\ Goto(c, IF c \in closed THEN "unregister" ELSE "recv")
    /\ UNCHANGED <<lockVars, closed, todo, acceptVars, genOf, chunk, appVars, stopVars, got>>

(* while not stop_event: recv() on a socket closed before the call raises. *)
LoopTop(c) ==
    /\ reader[c] = "top"
    /\ Goto(c, IF stopSet \/ c \in closed THEN "unregister" ELSE "recv")
    /\ UNCHANGED <<lockVars, closed, todo, acceptVars, genOf, chunk, appVars, stopVars, got>>

(* A recv() under way returns the App's lines or its end of file.  Closing    *)
(* the socket object in another thread does not wake it.                     *)
RecvLines(c) ==
    /\ reader[c] = "recv"
    /\ sent[c] > 0
    /\ chunk' = [chunk EXCEPT ![c] = sent[c]]
    /\ sent' = [sent EXCEPT ![c] = 0]
    /\ Goto(c, "lines")
    /\ UNCHANGED <<lockVars, closed, todo, acceptVars, genOf, hungUp, stopVars, got>>

RecvEnd(c) ==
    /\ reader[c] = "recv"
    /\ sent[c] = 0
    /\ c \in hungUp
    /\ Goto(c, "unregister")
    /\ UNCHANGED <<lockVars, closed, todo, acceptVars, genOf, chunk, appVars, stopVars, got>>

(* Faulty variant: an inner loop goes on receiving. *)
LinesHandledStay(c) ==
    /\ reader[c] = "lines"
    /\ chunk[c] = 0
    /\ todo[c] = {}
    /\ Goto(c, "recv")
    /\ UNCHANGED <<lockVars, closed, todo, acceptVars, genOf, chunk, appVars, stopVars, got>>

(* The buffer is empty: back to the top of the loop. *)
LinesHandled(c) ==
    /\ reader[c] = "lines"
    /\ chunk[c] = 0
    /\ todo[c] = {}
    /\ Goto(c, "top")
    /\ UNCHANGED <<lockVars, closed, todo, acceptVars, genOf, chunk, appVars, stopVars, got>>

(* Nothing is checked between the lines of one chunk. *)
NextLine(c) ==
    /\ reader[c] = "lines"
    /\ chunk[c] > 0
    /\ todo[c] = {}
    /\ chunk' = [chunk EXCEPT ![c] = @ - 1]

(* GET: the cached value is read under the lock and sent to this connection. *)
HandleGet(c, ch) ==
    /\ NextLine(c)
    /\ todo' = [todo EXCEPT ![c] =
                   IF values[ch] = 0 THEN {}
                   ELSE {[to |-> c, channel |-> ch, value |-> values[ch]]}]
    /\ UNCHANGED <<lockVars, closed, acceptVars, reader, genOf, appVars, stopVars, got>>

(* A line answered ERR, or one of a WiFi request not complete yet. *)
HandleOther(c) ==
    /\ NextLine(c)
    /\ UNCHANGED <<lockVars, closed, todo, acceptVars, reader, genOf, appVars, stopVars, got>>

(* A command: the callback runs without the lock ... *)
HandleWrite(c) ==
    /\ NextLine(c)
    /\ Goto(c, "calling")
    /\ UNCHANGED <<lockVars, closed, todo, acceptVars, genOf, appVars, stopVars, got>>

(* ... and its reply is stored, which pushes it to whoever is the client now; *)
(* a callback that gives no reply stores nothing.                            *)
StoreReply(c, ch) ==
    /\ reader[c] = "calling"
    /\ StoreValue(c, ch)
    /\ Goto(c, "lines")
    /\ UNCHANGED <<client, generation, closed, acceptVars, genOf, chunk, appVars, stopVars, got>>

NoReply(c) ==
    /\ reader[c] = "calling"
    /\ Goto(c, "lines")
    /\ UNCHANGED <<lockVars, closed, todo, acceptVars, genOf, chunk, appVars, stopVars, got>>

(* Faulty variant: the reader clears the client whoever it is. *)
UnregisterAnyone(c) ==
    /\ reader[c] = "unregister"
    /\ client' = NoConn
    /\ Goto(c, "close")
    /\ UNCHANGED <<values, generation, closed, todo, acceptVars, genOf, chunk, appVars, stopVars,
                   got>>

(* finally: the client is cleared only if it is still this connection. *)
Unregister(c) ==
    /\ reader[c] = "unregister"
    /\ client' = IF generation = genOf[c] /\ client = c THEN NoConn ELSE client
    /\ Goto(c, "close")
    /\ UNCHANGED <<values, generation, closed, todo, acceptVars, genOf, chunk, appVars, stopVars,
                   got>>

CloseConn(c) ==
    /\ reader[c] = "close"
    /\ closed' = closed \cup {c}
    /\ Goto(c, "done")
    /\ UNCHANGED <<lockVars, todo, acceptVars, genOf, chunk, appVars, stopVars, got>>

-----------------------------------------------------------------------------
(* stop(), on the main thread. *)
StopBegin ==
    /\ stopper = "running"
    /\ stopSet' = TRUE
    /\ stopper' = "stopping"
    /\ UNCHANGED <<lockVars, closed, todo, acceptVars, readerVars, appVars, stopConn, got>>

StopForgetClient ==
    /\ stopper = "stopping"
    /\ stopConn' = client
    /\ client' = NoConn
    /\ generation' = generation + 1
    /\ stopper' = "closing"
    /\ UNCHANGED <<values, stopSet, closed, todo, acceptVars, readerVars, appVars, got>>

StopCloseClient ==
    /\ stopper = "closing"
    /\ closed' = closed \cup ({stopConn} \ {NoConn})
    /\ stopConn' = NoConn
    /\ stopper' = "joining"
    /\ UNCHANGED <<lockVars, stopSet, todo, acceptVars, readerVars, appVars, got>>

(* join(timeout): returns with the accept thread's end or without it. *)
StopJoined ==
    /\ stopper = "joining"
    /\ stopper' = "stopped"
    /\ UNCHANGED <<lockVars, stopSet, closed, todo, acceptVars, readerVars, appVars, stopConn, got>>

-----------------------------------------------------------------------------
(* The App. *)
AppConnect(c) ==
    /\ reader[c] = "none"
    /\ ~stopSet
    /\ Goto(c, "backlog")
    /\ UNCHANGED <<lockVars, closed, todo, acceptVars, genOf, chunk, appVars, stopVars, got>>

AppSend(c) ==
    /\ reader[c] \notin {"none", "done"}
    /\ c \notin hungUp
    /\ sent[c] < MaxLines
    /\ sent' = [sent EXCEPT ![c] = @ + 1]
    /\ UNCHANGED <<lockVars, closed, todo, acceptVars, readerVars, hungUp, stopVars, got>>

AppHangUp(c) ==
    /\ reader[c] # "none"
    /\ c \notin hungUp
    /\ hungUp' = hungUp \cup {c}
    /\ UNCHANGED <<lockVars, closed, todo, acceptVars, readerVars, sent, stopVars, got>>

-----------------------------------------------------------------------------
AcceptStep ==
    \/ \E c \in Conns : AcceptConn(c)
    \/ ReplaceClient
    \/ CloseOld
    \/ \E line \in todo[Acceptor] : acceptor = "snapshot" /\ SendLine(Acceptor, line)
    \/ StartReader
    \/ AcceptorExit

ReaderStep(c) ==
    \/ LoopTop(c)
    \/ RecvLines(c)
    \/ RecvEnd(c)
    \/ LinesHandled(c)
    \/ \E line \in todo[c] : SendLine(c, line)
    \/ HandleOther(c)
    \/ HandleWrite(c)
    \/ NoReply(c)
    \/ \E ch \in Channels : HandleGet(c, ch) \/ StoreReply(c, ch)
    \/ Unregister(c)
    \/ CloseConn(c)

StoreStep(s) ==
    \/ \E ch \in Channels : Publish(s, ch)
    \/ \E line \in todo[s] : SendLine(s, line)

StopStep == StopBegin \/ StopForgetClient \/ StopCloseClient \/ StopJoined

Next ==
    \/ AcceptStep
    \/ \E c \in Conns : ReaderStep(c)
    \/ \E s \in Storers : StoreStep(s)
    \/ StopStep
    \/ \E c \in Conns : AppConnect(c) \/ AppSend(c) \/ AppHangUp(c)

Spec == Init /\ [][Next]_vars

(* The server's threads keep running and their callbacks return; the App and *)
(* the publishers owe nothing, except that a publisher finishes its push;    *)
(* stop(), once called, goes on.                                             *)
Fairness ==
    /\ WF_vars(AcceptStep)
    /\ \A c \in Conns : WF_vars(ReaderStep(c))
    /\ \A s \in Storers : WF_vars(\E line \in todo[s] : SendLine(s, line))
    /\ WF_vars(stopSet /\ StopStep)

FairSpec == Spec /\ Fairness

-----------------------------------------------------------------------------
(* No update is lost to the current client: the newest value of a pushed     *)
(* channel has reached it or some thread has still to send it, because       *)
(* _store and _replace_client each read and write the cache and the client   *)
(* in one critical section.                                                  *)
InFlight(c, ch, v) ==
    \E th \in Threads : [to |-> c, channel |-> ch, value |-> v] \in todo[th]

NoLostUpdate ==
    \A ch \in PushChannels :
        client # NoConn /\ client \notin closed /\ values[ch] # 0 =>
            values[ch] \in got[client][ch] \/ InFlight(client, ch, values[ch])

(* The registered client always has somebody who will clear it when the      *)
(* connection ends: the accept thread still installing it, or its reader.    *)
ClientIsServed ==
    client # NoConn =>
        \/ client = newConn /\ acceptor \in {"replaced", "snapshot"}
        \/ reader[client] \in {"top", "recv", "lines", "calling", "unregister"}

(* The client is of the latest generation, so its own reader may clear it.   *)
GenerationInv == client # NoConn => genOf[client] = generation

(* A client loses its place only to a new connection, to its own reader or   *)
(* to stop(): the reader of a kicked connection never clears its successor.  *)
OnlyOwnReaderClears ==
    [][client # NoConn /\ client' = NoConn =>
          \/ reader[client] = "unregister" /\ reader'[client] = "close"
          \/ stopper = "stopping" /\ stopper' = "closing"]_vars

(* After stop() the server ends up without a client, whatever connection the *)
(* accept thread was installing when it was called.                          *)
StopReleasesClient == <>[](stopSet => client = NoConn)

(* A kicked connection whose App still talks is let go.                      *)
TalkingKickedEnds ==
    \A c \in Conns : (c \in closed /\ sent[c] > 0 /\ reader[c] # "none") ~> reader[c] = "done"
=============================================================================
