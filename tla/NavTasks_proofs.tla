--------------------------- MODULE NavTasks_proofs ---------------------------
(* Theorems about NavTasks, for any sets of tasks, reader threads and launches. *)
EXTENDS NavTasks, TLAPS

USE DEF procVars, cmdVars, sweepVars, eventVars

LEMMA InitTypeOK == Init => TypeOK
BY NavAssumption DEF Init, TypeOK, Stages, Commanders

(* Each step keeps every variable in its type. *)
LEMMA NextTypeOK == TypeOK /\ [Next]_vars => TypeOK'
<1>. SUFFICES ASSUME TypeOK, [Next]_vars PROVE TypeOK'
  OBVIOUS
<1>. USE NavAssumption DEF TypeOK, Stages
<1>1. ASSUME NEW c \in Commanders, NEW t \in Tasks, StartCheck(c, t) PROVE TypeOK'
  BY <1>1 DEF StartCheck
<1>2. ASSUME NEW c \in Commanders, NEW t \in Tasks, StopMark(c, t) PROVE TypeOK'
  BY <1>2 DEF StopMark, StatusOf
<1>3. ASSUME NEW c \in Commanders, SpawnFails(c) PROVE TypeOK'
  BY <1>3 DEF SpawnFails, Return
<1>4. ASSUME NEW c \in Commanders, NEW p \in Procs, Spawn(c, p) PROVE TypeOK'
  BY <1>4 DEF Spawn
<1>5. ASSUME NEW c \in Commanders, Register(c) PROVE TypeOK'
  BY <1>5 DEF Register
<1>6. ASSUME NEW c \in Commanders, StartWaiter(c) \/ WaiterNotStarted(c) PROVE TypeOK'
  BY <1>6 DEF StartWaiter, WaiterNotStarted, Return
<1>7. ASSUME NEW c \in Commanders, StopSignal(c) PROVE TypeOK'
  BY <1>7 DEF StopSignal, SignalGroup, Return
<1>8. ASSUME NEW p \in Procs, DieOfSignal(p) \/ Crash(p) PROVE TypeOK'
  BY <1>8 DEF DieOfSignal, Crash
<1>9. ASSUME NEW p \in Procs, Waiter(p) PROVE TypeOK'
  BY <1>9 DEF Waiter, WaiterPop, WaiterReport
<1>10. ASSUME StopAllSnapshot PROVE TypeOK'
  BY <1>10 DEF StopAllSnapshot
<1>11. ASSUME NEW p \in Procs, StopAllSignal(p) PROVE TypeOK'
  BY <1>11 DEF StopAllSignal, SignalGroup
<1>12. ASSUME NEW p \in Procs, StopAllSawExit(p) \/ StopAllKill(p) PROVE TypeOK'
  BY <1>12 DEF StopAllSawExit, StopAllKill, SignalGroup
<1>13. ASSUME StopAllSignalled \/ StopAllDone PROVE TypeOK'
  BY <1>13 DEF StopAllSignalled, StopAllDone
<1>14. CASE UNCHANGED vars
  BY <1>14 DEF vars
<1>. QED
  BY <1>1, <1>2, <1>3, <1>4, <1>5, <1>6, <1>7, <1>8, <1>9, <1>10, <1>11, <1>12, <1>13, <1>14
  DEF Next, Command, Continue, StopAll

(* Type correctness of the manager, with any number of LAN readers. *)
THEOREM TypeCorrect == Spec => []TypeOK
BY InitTypeOK, NextTypeOK, PTL DEF Spec

-----------------------------------------------------------------------------
(* Whatever the command threads do, what they hold and what _running holds   *)
(* stay consistent.                                                          *)
BookInv == TypeOK /\ CommandInv /\ NoStaleEntry /\ ReportInv

LEMMA InitBook == Init => BookInv
BY InitTypeOK DEF Init, BookInv, CommandInv, NoStaleEntry, ReportInv

LEMMA NextBook == BookInv /\ [Next]_vars => BookInv'
<1>. SUFFICES ASSUME BookInv, [Next]_vars PROVE BookInv'
  OBVIOUS
<1>t. TypeOK'
  BY NextTypeOK DEF BookInv
<1>. SUFFICES (CommandInv /\ NoStaleEntry /\ ReportInv)'
  BY <1>t DEF BookInv
<1>. USE NavAssumption DEF TypeOK, Stages, BookInv, CommandInv, NoStaleEntry, ReportInv
<1>1. ASSUME NEW c \in Commanders, NEW t \in Tasks, StartCheck(c, t)
      PROVE  (CommandInv /\ NoStaleEntry /\ ReportInv)'
  BY <1>1 DEF StartCheck
<1>2. ASSUME NEW c \in Commanders, NEW t \in Tasks, StopMark(c, t)
      PROVE  (CommandInv /\ NoStaleEntry /\ ReportInv)'
  <2>1. /\ running[t] \in Procs
        /\ stage[running[t]] \in {"registered", "unwatched", "waited"}
    BY <1>2 DEF StopMark, StatusOf
  <2>2. report[running[t]] = "none"
    BY <2>1
  <2>3. CommandInv'
    BY <1>2 DEF StopMark
  <2>4. NoStaleEntry'
    BY <1>2 DEF StopMark
  <2>5. ReportInv'
    BY <1>2, <2>1, <2>2 DEF StopMark
  <2>. QED BY <2>3, <2>4, <2>5
<1>3. ASSUME NEW c \in Commanders, SpawnFails(c)
      PROVE  (CommandInv /\ NoStaleEntry /\ ReportInv)'
  BY <1>3 DEF SpawnFails, Return
<1>4. ASSUME NEW c \in Commanders, NEW p \in Procs, Spawn(c, p)
      PROVE  (CommandInv /\ NoStaleEntry /\ ReportInv)'
  <2>1. \A d \in Commanders : pc[d] \in {"spawned", "registered"} => mine[d] # p
    BY <1>4 DEF Spawn
  <2>2. \A t \in Tasks : running[t] # p
    BY <1>4 DEF Spawn
  <2>3. CommandInv'
    BY <1>4, <2>1 DEF Spawn
  <2>4. NoStaleEntry'
    BY <1>4, <2>2 DEF Spawn
  <2>5. ReportInv'
    BY <1>4 DEF Spawn
  <2>. QED BY <2>3, <2>4, <2>5
<1>5. ASSUME NEW c \in Commanders, Register(c)
      PROVE  (CommandInv /\ NoStaleEntry /\ ReportInv)'
  <2>1. /\ stage[mine[c]] = "spawned"
        /\ taskOf[mine[c]] = want[c]
        /\ mine[c] \in Procs
    BY <1>5 DEF Register
  <2>2. \A d \in Commanders \ {c} : pc[d] \in {"spawned", "registered"} => mine[d] # mine[c]
    BY <1>5 DEF Register
  <2>3. CommandInv'
    BY <1>5, <2>1, <2>2 DEF Register
  <2>4. NoStaleEntry'
    BY <1>5, <2>1 DEF Register
  <2>5. ReportInv'
    BY <1>5, <2>1 DEF Register
  <2>. QED BY <2>3, <2>4, <2>5
<1>6. ASSUME NEW c \in Commanders, StartWaiter(c) \/ WaiterNotStarted(c)
      PROVE  (CommandInv /\ NoStaleEntry /\ ReportInv)'
  <2>1. stage[mine[c]] = "registered" /\ mine[c] \in Procs
    BY <1>6 DEF StartWaiter, WaiterNotStarted
  <2>2. \A d \in Commanders \ {c} : pc[d] \in {"spawned", "registered"} => mine[d] # mine[c]
    BY <1>6 DEF StartWaiter, WaiterNotStarted
  <2>3. CommandInv'
    BY <1>6, <2>1, <2>2 DEF StartWaiter, WaiterNotStarted, Return
  <2>4. NoStaleEntry'
    BY <1>6, <2>1 DEF StartWaiter, WaiterNotStarted, Return
  <2>5. ReportInv'
    BY <1>6, <2>1 DEF StartWaiter, WaiterNotStarted, Return
  <2>. QED BY <2>3, <2>4, <2>5
<1>7. ASSUME NEW c \in Commanders, StopSignal(c)
      PROVE  (CommandInv /\ NoStaleEntry /\ ReportInv)'
  BY <1>7 DEF StopSignal, SignalGroup, Return
<1>8. ASSUME NEW p \in Procs, DieOfSignal(p) \/ Crash(p)
      PROVE  (CommandInv /\ NoStaleEntry /\ ReportInv)'
  BY <1>8 DEF DieOfSignal, Crash
<1>9. ASSUME NEW p \in Procs, WaiterPop(p)
      PROVE  (CommandInv /\ NoStaleEntry /\ ReportInv)'
  <2>1. \A d \in Commanders : pc[d] \in {"spawned", "registered"} => mine[d] # p
    BY <1>9 DEF WaiterPop
  <2>2. CommandInv'
    BY <1>9, <2>1 DEF WaiterPop
  <2>3. NoStaleEntry'
    BY <1>9 DEF WaiterPop
  <2>4. ReportInv'
    BY <1>9 DEF WaiterPop
  <2>. QED BY <2>2, <2>3, <2>4
<1>10. ASSUME NEW p \in Procs, WaiterReport(p)
       PROVE  (CommandInv /\ NoStaleEntry /\ ReportInv)'
  <2>1. \A d \in Commanders : pc[d] \in {"spawned", "registered"} => mine[d] # p
    BY <1>10 DEF WaiterReport
  <2>2. CommandInv'
    BY <1>10, <2>1 DEF WaiterReport
  <2>3. NoStaleEntry'
    BY <1>10 DEF WaiterReport
  <2>4. ReportInv'
    BY <1>10 DEF WaiterReport
  <2>. QED BY <2>2, <2>3, <2>4
<1>11. ASSUME NEW p \in Procs, StopAllSignal(p)
       PROVE  (CommandInv /\ NoStaleEntry /\ ReportInv)'
  BY <1>11 DEF StopAllSignal, SignalGroup
<1>12. ASSUME NEW p \in Procs, StopAllSawExit(p) \/ StopAllKill(p)
       PROVE  (CommandInv /\ NoStaleEntry /\ ReportInv)'
  BY <1>12 DEF StopAllSawExit, StopAllKill, SignalGroup
<1>13. ASSUME StopAllSnapshot \/ StopAllSignalled \/ StopAllDone
       PROVE  (CommandInv /\ NoStaleEntry /\ ReportInv)'
  BY <1>13 DEF StopAllSnapshot, StopAllSignalled, StopAllDone
<1>14. CASE UNCHANGED vars
  BY <1>14 DEF vars
<1>. QED
  BY <1>1, <1>2, <1>3, <1>4, <1>5, <1>6, <1>7, <1>8, <1>9, <1>10, <1>11, <1>12, <1>13, <1>14
  DEF Next, Command, Continue, Waiter, StopAll

LEMMA BookCorrect == Spec => []BookInv
BY InitBook, NextBook, PTL DEF Spec

(* No entry of _running outlives its waiter's pop, even when two threads     *)
(* start the same task at once and one entry overwrites the other.           *)
THEOREM NoEntryIsStale == Spec => []NoStaleEntry
BY BookCorrect, PTL DEF BookInv

(* A launch whose STOP was accepted is never reported EXITED. *)
THEOREM StoppedIsReportedStopped == Spec => []AcceptedStopIsStopped
<1>1. BookInv => AcceptedStopIsStopped
  BY DEF BookInv, TypeOK, ReportInv, AcceptedStopIsStopped
<1>. QED
  BY <1>1, BookCorrect, PTL

-----------------------------------------------------------------------------
(* From here on every command comes from the GLib thread: no LAN readers. *)
OneThreadInv == BookInv /\ SingleInv /\ SweepInv

LEMMA InitOneThread == Init => OneThreadInv
BY InitBook DEF Init, OneThreadInv, SingleInv, SweepInv, Launched, Commanders

LEMMA NextOneThread ==
  ASSUME LanReaders = {}
  PROVE  OneThreadInv /\ [Next]_vars => OneThreadInv'
<1>. SUFFICES ASSUME OneThreadInv, [Next]_vars PROVE (SingleInv /\ SweepInv)'
  BY NextBook DEF OneThreadInv
<1>b. Commanders = {BleThread}
  BY DEF Commanders
<1>. DEFINE B == BleThread
<1>. USE NavAssumption DEF OneThreadInv, BookInv, TypeOK, Stages, CommandInv, NoStaleEntry,
         SingleInv, SweepInv, Launched
<1>1. ASSUME NEW t \in Tasks, StartCheck(B, t)  PROVE (SingleInv /\ SweepInv)'
  BY <1>1, <1>b DEF StartCheck, MayCommand, MayStart
<1>2. ASSUME NEW t \in Tasks, StopMark(B, t)  PROVE (SingleInv /\ SweepInv)'
  BY <1>2, <1>b DEF StopMark, MayCommand
<1>3. ASSUME SpawnFails(B)  PROVE (SingleInv /\ SweepInv)'
  BY <1>3, <1>b DEF SpawnFails, Return
<1>4. ASSUME NEW p \in Procs, Spawn(B, p)  PROVE (SingleInv /\ SweepInv)'
  BY <1>4, <1>b DEF Spawn
<1>5. ASSUME Register(B)  PROVE (SingleInv /\ SweepInv)'
  <2>1. /\ mine[B] \in Procs
        /\ stage[mine[B]] = "spawned"
        /\ taskOf[mine[B]] = want[B]
        /\ running[want[B]] = NoProc
    BY <1>5, <1>b DEF Register
  <2>2. \A p \in Procs : Launched(p) /\ p # mine[B] => running[taskOf[p]] = p /\ taskOf[p] # want[B]
    BY <2>1
  <2>3. SingleInv'
    BY <1>5, <1>b, <2>1, <2>2 DEF Register
  <2>4. SweepInv'
    BY <1>5, <1>b, <2>1 DEF Register
  <2>. QED BY <2>3, <2>4
<1>6. ASSUME StartWaiter(B) \/ WaiterNotStarted(B)  PROVE (SingleInv /\ SweepInv)'
  BY <1>6, <1>b DEF StartWaiter, WaiterNotStarted, Return
<1>7. ASSUME StopSignal(B)  PROVE (SingleInv /\ SweepInv)'
  BY <1>7, <1>b DEF StopSignal, SignalGroup, Return
<1>8. ASSUME NEW p \in Procs, DieOfSignal(p) \/ Crash(p)  PROVE (SingleInv /\ SweepInv)'
  BY <1>8, <1>b DEF DieOfSignal, Crash
<1>9. ASSUME NEW p \in Procs, WaiterPop(p)  PROVE (SingleInv /\ SweepInv)'
  <2>1. running[taskOf[p]] = p
    BY <1>9, <1>b DEF WaiterPop
  <2>2. \A q \in Procs : running[taskOf[q]] = q /\ q # p => taskOf[q] # taskOf[p]
    BY <2>1
  <2>3. SingleInv'
    BY <1>9, <1>b, <2>1, <2>2 DEF WaiterPop
  <2>4. SweepInv'
    BY <1>9, <1>b DEF WaiterPop
  <2>. QED BY <2>3, <2>4
<1>10. ASSUME NEW p \in Procs, WaiterReport(p)  PROVE (SingleInv /\ SweepInv)'
  BY <1>10, <1>b DEF WaiterReport
<1>11. ASSUME StopAllSnapshot  PROVE (SingleInv /\ SweepInv)'
  <2>1. \A p \in Procs : alive[p] => running[taskOf[p]] = p
    BY <1>11, <1>b DEF StopAllSnapshot
  <2>2. \A p \in Procs : alive[p] => p \in toWait'
    BY <1>11, <2>1 DEF StopAllSnapshot
  <2>3. SingleInv'
    BY <1>11, <1>b DEF StopAllSnapshot
  <2>4. SweepInv'
    BY <1>11, <1>b, <2>2 DEF StopAllSnapshot
  <2>. QED BY <2>3, <2>4
<1>12. ASSUME NEW p \in Procs, StopAllSignal(p)  PROVE (SingleInv /\ SweepInv)'
  BY <1>12, <1>b DEF StopAllSignal, SignalGroup
<1>13. ASSUME NEW p \in Procs, StopAllSawExit(p) \/ StopAllKill(p)
       PROVE (SingleInv /\ SweepInv)'
  BY <1>13, <1>b DEF StopAllSawExit, StopAllKill, SignalGroup
<1>14. ASSUME StopAllSignalled \/ StopAllDone  PROVE (SingleInv /\ SweepInv)'
  BY <1>14, <1>b DEF StopAllSignalled, StopAllDone
<1>15. CASE UNCHANGED vars
  BY <1>15 DEF vars
<1>. QED
  BY <1>b, <1>1, <1>2, <1>3, <1>4, <1>5, <1>6, <1>7, <1>8, <1>9, <1>10, <1>11, <1>12, <1>13,
     <1>14, <1>15 DEF Next, Command, Continue, Waiter, StopAll

LEMMA OneThreadCorrect == ASSUME LanReaders = {} PROVE Spec => []OneThreadInv
<1>1. OneThreadInv /\ [Next]_vars => OneThreadInv'
  BY NextOneThread
<1>. QED
  BY <1>1, InitOneThread, PTL DEF Spec

(* With all commands on one thread no task ever has two process trees. *)
THEOREM OneLaunch == ASSUME LanReaders = {} PROVE Spec => []OneLaunchPerTask
<1>1. OneThreadInv => OneLaunchPerTask
  BY NavAssumption DEF OneThreadInv, BookInv, TypeOK, CommandInv, SingleInv, Commanders, Launched,
     OneLaunchPerTask
<1>. QED
  BY <1>1, OneThreadCorrect, PTL

(* With all commands on one thread, stop_all() leaves no tree without SIGKILL. *)
THEOREM NoneLeftAtShutdown == ASSUME LanReaders = {} PROVE Spec => []ShutdownLeavesNone
<1>1. OneThreadInv => ShutdownLeavesNone
  BY DEF OneThreadInv, SweepInv, ShutdownLeavesNone
<1>. QED
  BY <1>1, OneThreadCorrect, PTL

-----------------------------------------------------------------------------
(* The manager implements TaskLifecycle. *)
LEMMA InitFresh == Init => FreshInv
BY DEF Init, FreshInv

LEMMA NextFresh == BookInv /\ FreshInv /\ [Next]_vars => FreshInv'
<1>. SUFFICES ASSUME BookInv, FreshInv, [Next]_vars PROVE FreshInv'
  OBVIOUS
<1>. USE NavAssumption DEF BookInv, TypeOK, Stages, CommandInv, NoStaleEntry, FreshInv
<1>1. ASSUME NEW c \in Commanders, Command(c)  PROVE FreshInv'
  BY <1>1 DEF Command, StartCheck, StopMark, StatusOf
<1>2. ASSUME NEW c \in Commanders, NEW p \in Procs, Spawn(c, p)  PROVE FreshInv'
  BY <1>2 DEF Spawn
<1>3. ASSUME NEW c \in Commanders,
             \/ SpawnFails(c) \/ Register(c)
             \/ StartWaiter(c) \/ WaiterNotStarted(c) \/ StopSignal(c)
      PROVE FreshInv'
  BY <1>3 DEF SpawnFails, Register, StartWaiter, WaiterNotStarted, StopSignal, SignalGroup, Return
<1>4. ASSUME NEW p \in Procs, DieOfSignal(p) \/ Crash(p) \/ Waiter(p)  PROVE FreshInv'
  BY <1>4 DEF DieOfSignal, Crash, Waiter, WaiterPop, WaiterReport
<1>5. ASSUME StopAll  PROVE FreshInv'
  <2>1. CASE StopAllSnapshot
    <3>1. \A p \in toSignal' : stage[p] \in {"registered", "unwatched", "waited"}
      <4>1. \A t \in Tasks : running[t] \in toSignal' => stage[running[t]] \in {"registered", "unwatched", "waited"}
        BY <2>1 DEF StopAllSnapshot
      <4>2. \A p \in toSignal' : \E t \in Tasks : p = running[t]
        BY <2>1 DEF StopAllSnapshot
      <4>. QED BY <4>1, <4>2
    <3>2. UNCHANGED <<stage, stopRequested>>
      BY <2>1 DEF StopAllSnapshot
    <3>. QED BY <3>1, <3>2
  <2>2. ASSUME NEW p \in Procs, StopAllSignal(p)  PROVE FreshInv'
    BY <2>2 DEF StopAllSignal
  <2>3. ASSUME NEW p \in Procs, StopAllSawExit(p) \/ StopAllKill(p)  PROVE FreshInv'
    BY <2>3 DEF StopAllSawExit, StopAllKill
  <2>4. CASE StopAllSignalled \/ StopAllDone
    BY <2>4 DEF StopAllSignalled, StopAllDone
  <2>. QED BY <1>5, <2>1, <2>2, <2>3, <2>4 DEF StopAll
<1>6. CASE UNCHANGED vars
  BY <1>6 DEF vars
<1>. QED
  BY <1>1, <1>2, <1>3, <1>4, <1>5, <1>6 DEF Next, Continue

LEMMA FreshCorrect == Spec => []FreshInv
BY BookCorrect, InitFresh, NextFresh, PTL DEF Spec

LEMMA InitLifecycle == Init => Lifecycle!Init
BY NavAssumption DEF Init, Lifecycle!Init, PhaseOf, ShownTask

(* A step that changes the phase of one launch only. *)
LEMMA OnePhaseChanges ==
  ASSUME NEW p \in Procs, NEW v,
         \A q \in Procs : PhaseOf(q)' = IF q = p THEN v ELSE PhaseOf(q)
  PROVE  [q \in Procs |-> PhaseOf(q)]' = [[q \in Procs |-> PhaseOf(q)] EXCEPT ![p] = v]
OBVIOUS

LEMMA NothingShows ==
  ASSUME \A q \in Procs : PhaseOf(q)' = PhaseOf(q) /\ ShownTask(q)' = ShownTask(q)
  PROVE  UNCHANGED Lifecycle!vars
BY DEF Lifecycle!vars

LEMMA AskShows ==
  ASSUME TypeOK, NEW p \in Procs, stage[p] \in {"registered", "unwatched", "waited"}, ~stopRequested[p],
         stopRequested' = [stopRequested EXCEPT ![p] = TRUE], UNCHANGED <<stage, taskOf>>
  PROVE  Lifecycle!AskToStop(p)
<1>1. PhaseOf(p) = "RUNNING"
  BY DEF PhaseOf
<1>2. \A q \in Procs : PhaseOf(q)' = IF q = p THEN "STOPPING" ELSE PhaseOf(q)
  BY DEF PhaseOf, TypeOK, Stages
<1>3. \A q \in Procs : ShownTask(q)' = ShownTask(q)
  BY DEF ShownTask
<1>4. [q \in Procs |-> PhaseOf(q)]' = [[q \in Procs |-> PhaseOf(q)] EXCEPT ![p] = "STOPPING"]
  BY <1>2, OnePhaseChanges
<1>. QED
  BY <1>1, <1>3, <1>4 DEF Lifecycle!AskToStop

LEMMA PopShows ==
  ASSUME TypeOK, NEW p \in Procs, WaiterPop(p)
  PROVE  Lifecycle!End(p)
<1>1. PhaseOf(p) \in {"RUNNING", "STOPPING"}
  BY DEF PhaseOf, WaiterPop
<1>2. \A q \in Procs : PhaseOf(q)' = IF q = p THEN "ended" ELSE PhaseOf(q)
  BY DEF PhaseOf, TypeOK, Stages, WaiterPop
<1>3. \A q \in Procs : ShownTask(q)' = ShownTask(q)
  BY DEF ShownTask, WaiterPop, TypeOK
<1>4. [q \in Procs |-> PhaseOf(q)]' = [[q \in Procs |-> PhaseOf(q)] EXCEPT ![p] = "ended"]
  BY <1>2, OnePhaseChanges
<1>. QED
  BY <1>1, <1>3, <1>4 DEF Lifecycle!End, Lifecycle!Visible

LEMMA ReportShows ==
  ASSUME TypeOK, NEW p \in Procs, WaiterReport(p)
  PROVE  Lifecycle!Report(p)
<1>1. PhaseOf(p) = "ended"
  BY DEF PhaseOf, WaiterReport
<1>2. \A q \in Procs : PhaseOf(q)' = IF q = p THEN "reported" ELSE PhaseOf(q)
  BY DEF PhaseOf, TypeOK, Stages, WaiterReport
<1>3. \A q \in Procs : ShownTask(q)' = ShownTask(q)
  BY DEF ShownTask, WaiterReport, TypeOK
<1>4. [q \in Procs |-> PhaseOf(q)]' = [[q \in Procs |-> PhaseOf(q)] EXCEPT ![p] = "reported"]
  BY <1>2, OnePhaseChanges
<1>. QED
  BY <1>1, <1>3, <1>4 DEF Lifecycle!Report

LEMMA RegisterShows ==
  ASSUME LanReaders = {}, OneThreadInv, FreshInv, Register(BleThread)
  PROVE  \E p \in Procs, t \in Tasks : Lifecycle!Launch(p, t)
<1>. USE NavAssumption DEF OneThreadInv, BookInv, TypeOK, Stages, CommandInv
<1>b. Commanders = {BleThread}
  BY DEF Commanders
<1>1. PICK p \in Procs : p = mine[BleThread]
  BY <1>b DEF Register
<1>2. PICK t \in Tasks : t = want[BleThread]
  BY <1>b
<1>3. stage[p] = "spawned" /\ taskOf[p] = t /\ running[t] = NoProc /\ ~stopRequested[p]
  BY <1>b, <1>1, <1>2 DEF Register, SingleInv, FreshInv
<1>4. stage' = [stage EXCEPT ![p] = "registered"] /\ UNCHANGED <<taskOf, stopRequested>>
  BY <1>1 DEF Register
<1>5. \A q \in Procs : PhaseOf(q)' = IF q = p THEN "RUNNING" ELSE PhaseOf(q)
  BY <1>3, <1>4 DEF PhaseOf
<1>6. \A q \in Procs : ShownTask(q)' = IF q = p THEN t ELSE ShownTask(q)
  BY <1>3, <1>4 DEF ShownTask
<1>7. PhaseOf(p) = "new"
  BY <1>3 DEF PhaseOf
<1>8. \A q \in Procs : PhaseOf(q) \in {"RUNNING", "STOPPING"} => ShownTask(q) # t
  <2>. SUFFICES ASSUME NEW q \in Procs, PhaseOf(q) \in {"RUNNING", "STOPPING"}
                PROVE  ShownTask(q) # t
    OBVIOUS
  <2>1. stage[q] \in {"registered", "unwatched", "waited"}
    BY DEF PhaseOf
  <2>2. running[taskOf[q]] = q
    BY <2>1, <1>1, <1>3 DEF SingleInv, Launched
  <2>. QED
    BY <2>1, <2>2, <1>3 DEF ShownTask
<1>9. [q \in Procs |-> PhaseOf(q)]' = [[q \in Procs |-> PhaseOf(q)] EXCEPT ![p] = "RUNNING"]
  BY <1>5, OnePhaseChanges
<1>10. [q \in Procs |-> ShownTask(q)]' = [[q \in Procs |-> ShownTask(q)] EXCEPT ![p] = t]
  BY <1>6
<1>11. Lifecycle!Launch(p, t)
  BY <1>7, <1>8, <1>9, <1>10 DEF Lifecycle!Launch, Lifecycle!Visible
<1>. QED
  BY <1>11

(* Every step of the manager is a step of TaskLifecycle or shows nothing. *)
LEMMA NextLifecycle ==
  ASSUME LanReaders = {}, OneThreadInv, FreshInv, [Next]_vars
  PROVE  [Lifecycle!Next]_(Lifecycle!vars)
<1>b. Commanders = {BleThread}
  BY DEF Commanders
<1>. DEFINE B == BleThread
            Same == \A q \in Procs : PhaseOf(q)' = PhaseOf(q) /\ ShownTask(q)' = ShownTask(q)
<1>t. TypeOK /\ FreshInv
  BY DEF OneThreadInv, BookInv
<1>1. ASSUME NEW t \in Tasks, StartCheck(B, t)  PROVE Same
  BY <1>1 DEF StartCheck, PhaseOf, ShownTask
<1>2. ASSUME NEW t \in Tasks, StopMark(B, t)
      PROVE  \E p \in Procs : Lifecycle!AskToStop(p)
  <2>1. PICK p \in Procs : p = running[t] /\ ~stopRequested[p]
    BY <1>2, <1>t DEF StopMark, StatusOf, TypeOK
  <2>2. stage[p] \in {"registered", "unwatched", "waited"}
    BY <2>1, NavAssumption DEF OneThreadInv, BookInv, NoStaleEntry
  <2>3. stopRequested' = [stopRequested EXCEPT ![p] = TRUE] /\ UNCHANGED <<stage, taskOf>>
    BY <1>2, <2>1 DEF StopMark
  <2>4. Lifecycle!AskToStop(p)
    BY <2>1, <2>2, <2>3, <1>t, AskShows
  <2>. QED BY <2>4
<1>3. ASSUME SpawnFails(B) \/ StopSignal(B)  PROVE Same
  BY <1>3 DEF SpawnFails, StopSignal, PhaseOf, ShownTask
<1>4. ASSUME NEW p \in Procs, Spawn(B, p)  PROVE Same
  BY <1>4, <1>t DEF Spawn, PhaseOf, ShownTask, TypeOK, Stages
<1>5. ASSUME StartWaiter(B) \/ WaiterNotStarted(B)  PROVE Same
  BY <1>5, <1>t, <1>b DEF StartWaiter, WaiterNotStarted, PhaseOf, ShownTask, TypeOK, Stages, OneThreadInv, BookInv,
     CommandInv
<1>6. ASSUME NEW p \in Procs, DieOfSignal(p) \/ Crash(p)  PROVE Same
  BY <1>6 DEF DieOfSignal, Crash, PhaseOf, ShownTask
<1>7. ASSUME NEW p \in Procs, Waiter(p)  PROVE Lifecycle!End(p) \/ Lifecycle!Report(p)
  BY <1>7, <1>t, PopShows, ReportShows DEF Waiter
<1>8. ASSUME NEW p \in Procs, StopAllSignal(p)  PROVE Lifecycle!AskToStop(p) \/ Same
  <2>0. p \in toSignal /\ stopRequested' = [stopRequested EXCEPT ![p] = TRUE]
        /\ UNCHANGED <<stage, taskOf>>
    BY <1>8 DEF StopAllSignal
  <2>1. CASE stage[p] \in {"registered", "unwatched", "waited"} /\ ~stopRequested[p]
    BY <2>0, <2>1, <1>t, AskShows
  <2>2. CASE stopRequested[p]
    BY <2>0, <2>2, <1>t DEF PhaseOf, ShownTask, TypeOK
  <2>3. CASE stage[p] \in {"popped", "reported"}
    BY <2>0, <2>3, <1>t DEF PhaseOf, ShownTask, TypeOK
  <2>. QED BY <2>0, <2>1, <2>2, <2>3, <1>t DEF FreshInv, TypeOK, Stages
<1>9. ASSUME NEW p \in Procs, StopAllSawExit(p) \/ StopAllKill(p)  PROVE Same
  BY <1>9 DEF StopAllSawExit, StopAllKill, PhaseOf, ShownTask
<1>10. ASSUME StopAllSnapshot \/ StopAllSignalled \/ StopAllDone  PROVE Same
  BY <1>10 DEF StopAllSnapshot, StopAllSignalled, StopAllDone, PhaseOf, ShownTask
<1>11. ASSUME UNCHANGED vars  PROVE Same
  BY <1>11 DEF vars, PhaseOf, ShownTask
<1>12. Same \/ Lifecycle!Next
  <2>1. CASE \E c \in Commanders : Command(c) \/ Continue(c)
    BY <2>1, <1>b, <1>1, <1>2, <1>3, <1>4, <1>5, RegisterShows
    DEF Command, Continue, Lifecycle!Next
  <2>2. CASE \E p \in Procs : DieOfSignal(p) \/ Crash(p) \/ Waiter(p)
    BY <2>2, <1>6, <1>7 DEF Lifecycle!Next
  <2>3. CASE StopAll
    BY <2>3, <1>8, <1>9, <1>10 DEF StopAll, Lifecycle!Next
  <2>. QED BY <2>1, <2>2, <2>3, <1>11 DEF Next
<1>. QED
  BY <1>12, NothingShows

(* With all commands on one thread, every behaviour of the manager is one of *)
(* TaskLifecycle.                                                            *)
THEOREM LifecycleImplemented == ASSUME LanReaders = {} PROVE Spec => ImplementsLifecycle
<1>1. OneThreadInv /\ FreshInv /\ [Next]_vars => [Lifecycle!Next]_(Lifecycle!vars)
  BY NextLifecycle
<1>. QED
  BY <1>1, InitLifecycle, OneThreadCorrect, FreshCorrect, PTL
  DEF Spec, ImplementsLifecycle, Lifecycle!Spec

-----------------------------------------------------------------------------
(* Who is responsible for a launch at each moment, whatever threads race. *)
LaunchIsCarried ==
    \A p \in Procs :
        /\ alive[p] => Launched(p)
        /\ stage[p] \in {"spawned", "registered"} =>
              \E c \in Commanders : pc[c] = stage[p] /\ mine[c] = p
        /\ p \in accepted /\ alive[p] =>
              \/ "INT" \in signals[p]
              \/ \E c \in Commanders : pc[c] = "marked" /\ mine[c] = p

LEMMA NextCarried == BookInv /\ FreshInv /\ LaunchIsCarried /\ [Next]_vars => LaunchIsCarried'
<1>. SUFFICES ASSUME BookInv, FreshInv, LaunchIsCarried, [Next]_vars PROVE LaunchIsCarried'
  OBVIOUS
<1>. USE NavAssumption DEF BookInv, TypeOK, Stages, LaunchIsCarried, Launched
<1>1. ASSUME NEW c \in Commanders, NEW t \in Tasks, StartCheck(c, t)  PROVE LaunchIsCarried'
  BY <1>1 DEF StartCheck, MayCommand
<1>2. ASSUME NEW c \in Commanders, NEW t \in Tasks, StopMark(c, t)  PROVE LaunchIsCarried'
  <2>1. \A d \in Commanders : pc[d] # "idle" => pc'[d] = pc[d] /\ mine'[d] = mine[d]
    BY <1>2 DEF StopMark, MayCommand
  <2>2. pc'[c] = "marked" /\ mine'[c] = running[t] /\ UNCHANGED <<alive, stage, signals>>
        /\ accepted' = accepted \cup {running[t]}
    BY <1>2 DEF StopMark
  <2>. QED
    BY <2>1, <2>2
<1>3. ASSUME NEW c \in Commanders, SpawnFails(c)  PROVE LaunchIsCarried'
  BY <1>3 DEF SpawnFails, Return
<1>4. ASSUME NEW c \in Commanders, NEW p \in Procs, Spawn(c, p)  PROVE LaunchIsCarried'
  <2>1. \A d \in Commanders \ {c} : pc'[d] = pc[d] /\ mine'[d] = mine[d]
    BY <1>4 DEF Spawn
  <2>2. pc[c] = "checked" /\ pc'[c] = "spawned" /\ mine'[c] = p /\ p \notin accepted
    BY <1>4 DEF Spawn, FreshInv, ReportInv
  <2>. QED
    BY <1>4, <2>1, <2>2 DEF Spawn
<1>5. ASSUME NEW c \in Commanders, Register(c)  PROVE LaunchIsCarried'
  <2>1. \A d \in Commanders \ {c} : pc'[d] = pc[d]
    BY <1>5 DEF Register
  <2>2. pc[c] = "spawned" /\ pc'[c] = "registered" /\ mine' = mine /\ stage[mine[c]] = "spawned"
    BY <1>5 DEF Register, CommandInv
  <2>. QED
    BY <1>5, <2>1, <2>2 DEF Register
<1>6. ASSUME NEW c \in Commanders, StartWaiter(c) \/ WaiterNotStarted(c)  PROVE LaunchIsCarried'
  <2>1. \A d \in Commanders \ {c} : pc'[d] = pc[d] /\ mine'[d] = mine[d]
    BY <1>6 DEF StartWaiter, WaiterNotStarted, Return
  <2>2. /\ pc[c] = "registered" /\ mine[c] \in Procs /\ stage'[mine[c]] \in {"waited", "unwatched"}
        /\ \A p \in Procs : p # mine[c] => stage'[p] = stage[p]
        /\ UNCHANGED <<alive, signals, accepted>>
    BY <1>6 DEF StartWaiter, WaiterNotStarted
  <2>3. \A p \in Procs : alive'[p] => Launched(p)'
    BY <2>2
  <2>4. ASSUME NEW p \in Procs, stage'[p] \in {"spawned", "registered"}
        PROVE  \E d \in Commanders : pc'[d] = stage'[p] /\ mine'[d] = p
    <3>1. p # mine[c] /\ stage'[p] = stage[p]
      BY <2>2, <2>4
    <3>2. PICK d \in Commanders : pc[d] = stage[p] /\ mine[d] = p
      BY <2>4, <3>1
    <3>. QED
      BY <2>1, <3>1, <3>2
  <2>5. ASSUME NEW p \in Procs, p \in accepted', alive'[p]
        PROVE  "INT" \in signals'[p] \/ \E d \in Commanders : pc'[d] = "marked" /\ mine'[d] = p
    BY <2>1, <2>2, <2>5
  <2>. QED
    BY <2>3, <2>4, <2>5
<1>7. ASSUME NEW c \in Commanders, StopSignal(c)  PROVE LaunchIsCarried'
  <2>1. \A d \in Commanders \ {c} : pc'[d] = pc[d] /\ mine'[d] = mine[d]
    BY <1>7 DEF StopSignal, Return
  <2>2. /\ pc[c] = "marked" /\ mine[c] \in Procs /\ UNCHANGED <<alive, stage, accepted>>
        /\ \A p \in Procs : "INT" \in signals[p] => "INT" \in signals'[p]
        /\ alive[mine[c]] => "INT" \in signals'[mine[c]]
    BY <1>7 DEF StopSignal, SignalGroup
  <2>3. \A p \in Procs : stage[p] \in {"spawned", "registered"} =>
           \E d \in Commanders : pc'[d] = stage[p] /\ mine'[d] = p
    BY <2>1, <2>2
  <2>4. \A p \in Procs : p \in accepted /\ alive[p] =>
           "INT" \in signals'[p] \/ \E d \in Commanders : pc'[d] = "marked" /\ mine'[d] = p
    BY <2>1, <2>2
  <2>. QED
    BY <2>2, <2>3, <2>4
<1>8. ASSUME NEW p \in Procs, DieOfSignal(p) \/ Crash(p)  PROVE LaunchIsCarried'
  BY <1>8 DEF DieOfSignal, Crash
<1>9. ASSUME NEW p \in Procs, Waiter(p)  PROVE LaunchIsCarried'
  BY <1>9 DEF Waiter, WaiterPop, WaiterReport
<1>10. ASSUME NEW p \in Procs, StopAllSignal(p) \/ StopAllKill(p) \/ StopAllSawExit(p)  PROVE LaunchIsCarried'
  BY <1>10 DEF StopAllSignal, StopAllKill, StopAllSawExit, SignalGroup
<1>11. ASSUME StopAllSnapshot \/ StopAllSignalled \/ StopAllDone  PROVE LaunchIsCarried'
  BY <1>11 DEF StopAllSnapshot, StopAllSignalled, StopAllDone
<1>12. CASE UNCHANGED vars
  BY <1>12 DEF vars
<1>. QED
  BY <1>1, <1>2, <1>3, <1>4, <1>5, <1>6, <1>7, <1>8, <1>9, <1>10, <1>11, <1>12
  DEF Next, Command, Continue, StopAll

(* No launch is orphaned, even where races overwrite entries of _running: a tree  *)
(* that lives has its waiter or a thread about to start it, and an accepted      *)
(* STOP has sent its SIGINT or is about to.  EndedIsReported and StopIsConfirmed *)
(* rest on it; that the threads go on is left to fairness.                    *)
THEOREM NoLaunchIsOrphaned == Spec => []LaunchIsCarried
<1>1. Init => LaunchIsCarried
  BY DEF Init, LaunchIsCarried
<1>. QED
  BY BookCorrect, FreshCorrect, NextCarried, <1>1, PTL DEF Spec
=============================================================================
