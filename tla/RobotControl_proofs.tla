------------------------- MODULE RobotControl_proofs -------------------------
(* Theorems about RobotControl, for any calls, commands and configuration. *)
EXTENDS RobotControl, TLAPS

USE DEF Goto, Cancelled, Locations, Answers

LEMMA InitTypeOK == Init => TypeOK
BY DEF Init, TypeOK

(* Each step keeps every variable in its type. *)
LEMMA NextTypeOK == TypeOK /\ [Next]_vars => TypeOK'
<1>. SUFFICES ASSUME TypeOK, [Next]_vars PROVE TypeOK'
  OBVIOUS
<1>. USE RobotAssumption DEF TypeOK
<1>1. ASSUME Start \/ Stop \/ StopDestroysPublisher PROVE TypeOK'
  BY <1>1 DEF Start, Stop, StopDestroysPublisher
<1>2. ASSUME NEW c \in Calls, StopCancelsTimer(c) PROVE TypeOK'
  BY <1>2 DEF StopCancelsTimer
<1>3. ASSUME NEW c \in Calls, Call(c) \/ Dispatch(c) \/ PublishTopic(c) PROVE TypeOK'
  BY <1>3 DEF Call, Dispatch, PublishTopic
<1>4. ASSUME NEW c \in Calls, GetClient(c) \/ WaitForService(c) \/ SendRequest(c) PROVE TypeOK'
  BY <1>4 DEF GetClient, WaitForService, SendRequest
<1>5. ASSUME NEW c \in Calls, Register(c) \/ StartTimer(c) \/ AddCallback(c) PROVE TypeOK'
  BY <1>5 DEF Register, StartTimer, AddCallback
<1>6. ASSUME NEW c \in Calls, ServiceAnswers(c) \/ OnDone(c) PROVE TypeOK'
  BY <1>6 DEF ServiceAnswers, OnDone
<1>7. ASSUME NEW c \in Calls, OnDoneSettles(c) \/ OnDoneReports(c) PROVE TypeOK'
  BY <1>7 DEF OnDoneSettles, OnDoneReports
<1>8. ASSUME NEW c \in Calls, TimerStep(c) PROVE TypeOK'
  BY <1>8 DEF TimerStep, TimerExpires, OnTimeout, OnTimeoutCancels, OnTimeoutReports
<1>9. CASE UNCHANGED vars
  BY <1>9 DEF vars
<1>. QED
  BY <1>1, <1>2, <1>3, <1>4, <1>5, <1>6, <1>7, <1>8, <1>9
  DEF Next, StopStep, ExecuteStep, DoneStep

(* Type correctness, for any number of concurrent calls. *)
THEOREM TypeCorrect == Spec => []TypeOK
BY InitTypeOK, NextTypeOK, PTL DEF Spec

-----------------------------------------------------------------------------
(* A call is in one hand at a time, and whoever lets go of its timer has      *)
(* already taken it out of _pending.                                         *)
HandInv == TypeOK /\ OneHand /\ TimedInv

LEMMA InitHand == Init => HandInv
BY InitTypeOK DEF Init, HandInv, OneHand, TimedInv, Unregistered, HeldByCallback, HeldByTimer

LEMMA NextHand == HandInv /\ [Next]_vars => HandInv'
<1>. SUFFICES ASSUME HandInv, [Next]_vars PROVE (OneHand /\ TimedInv)'
  BY NextTypeOK DEF HandInv
<1>. USE DEF HandInv, TypeOK, OneHand, TimedInv, Unregistered, HeldByCallback, HeldByTimer
<1>1. ASSUME Start \/ StopDestroysPublisher PROVE (OneHand /\ TimedInv)'
  BY <1>1 DEF Start, StopDestroysPublisher
<1>2. ASSUME Stop PROVE (OneHand /\ TimedInv)'
  <2>1. OneHand'
    BY <1>2 DEF Stop
  <2>2. TimedInv'
    BY <1>2 DEF Stop
  <2>. QED
    BY <2>1, <2>2
<1>3. ASSUME NEW c \in Calls, StopCancelsTimer(c) PROVE (OneHand /\ TimedInv)'
  BY <1>3 DEF StopCancelsTimer
<1>4. ASSUME NEW c \in Calls, Call(c) \/ Dispatch(c) \/ PublishTopic(c) PROVE (OneHand /\ TimedInv)'
  BY <1>4 DEF Call, Dispatch, PublishTopic
<1>5. ASSUME NEW c \in Calls, GetClient(c) \/ WaitForService(c) \/ SendRequest(c)
      PROVE (OneHand /\ TimedInv)'
  BY <1>5 DEF GetClient, WaitForService, SendRequest
<1>6. ASSUME NEW c \in Calls, Register(c) PROVE (OneHand /\ TimedInv)'
  BY <1>6 DEF Register
<1>7. ASSUME NEW c \in Calls, StartTimer(c) \/ AddCallback(c) PROVE (OneHand /\ TimedInv)'
  BY <1>7 DEF StartTimer, AddCallback
<1>8. ASSUME NEW c \in Calls, ServiceAnswers(c) \/ OnDone(c) PROVE (OneHand /\ TimedInv)'
  BY <1>8 DEF ServiceAnswers, OnDone
<1>9. ASSUME NEW c \in Calls, OnDoneSettles(c) \/ OnDoneReports(c) PROVE (OneHand /\ TimedInv)'
  BY <1>9 DEF OnDoneSettles, OnDoneReports
<1>10. ASSUME NEW c \in Calls, TimerExpires(c) \/ OnTimeout(c) PROVE (OneHand /\ TimedInv)'
  BY <1>10 DEF TimerExpires, OnTimeout
<1>11. ASSUME NEW c \in Calls, OnTimeoutCancels(c) \/ OnTimeoutReports(c)
       PROVE (OneHand /\ TimedInv)'
  BY <1>11 DEF OnTimeoutCancels, OnTimeoutReports
<1>12. CASE UNCHANGED vars
  BY <1>12 DEF vars
<1>. QED
  BY <1>1, <1>2, <1>3, <1>4, <1>5, <1>6, <1>7, <1>8, <1>9, <1>10, <1>11, <1>12
  DEF Next, StopStep, ExecuteStep, DoneStep, TimerStep

LEMMA HandAlways == Spec => []HandInv
BY InitHand, NextHand, PTL DEF Spec

(* At most one of result, timeout and stop() settles a call. *)
THEOREM SettledOnce == Spec => []OneOutcome
<1>1. HandInv => OneOutcome
  BY DEF HandInv, OneHand, OneOutcome
<1>. QED
  BY <1>1, HandAlways, PTL

(* No call is left pending behind a timer that will never fire. *)
THEOREM PendingAlwaysTimed == Spec => []PendingIsTimed
<1>1. HandInv => PendingIsTimed
  BY DEF HandInv, TypeOK, OneHand, TimedInv, PendingIsTimed, HeldByTimer
<1>. QED
  BY <1>1, HandAlways, PTL

-----------------------------------------------------------------------------
(* What AcceptedIsSettled rests on: nobody lets go of a call before something  *)
(* has become of it.                                                         *)
KeptInv ==
    \A c \in Calls :
        ~Unregistered(c) /\ outcome[c] = {} => c \in pending \/ HeldByCallback(c) \/ HeldByTimer(c)

LEMMA NextKept == HandInv /\ KeptInv /\ [Next]_vars => KeptInv'
<1>. SUFFICES ASSUME HandInv, KeptInv, [Next]_vars PROVE KeptInv'
  OBVIOUS
<1>. USE DEF HandInv, TypeOK, OneHand, KeptInv, Unregistered, HeldByCallback, HeldByTimer
<1>1. CASE Start \/ Stop \/ StopDestroysPublisher \/ UNCHANGED vars
  BY <1>1 DEF Start, Stop, StopDestroysPublisher, vars
<1>2. ASSUME NEW c \in Calls, StopCancelsTimer(c) \/ Call(c) \/ ServiceAnswers(c) PROVE KeptInv'
  BY <1>2 DEF StopCancelsTimer, Call, ServiceAnswers
<1>3. ASSUME NEW c \in Calls, Dispatch(c) PROVE KeptInv'
  BY <1>3 DEF Dispatch
<1>4. ASSUME NEW c \in Calls, PublishTopic(c) \/ GetClient(c) \/ WaitForService(c) \/ SendRequest(c)
      PROVE KeptInv'
  BY <1>4 DEF PublishTopic, GetClient, WaitForService, SendRequest
<1>5. ASSUME NEW c \in Calls, Register(c) \/ StartTimer(c) \/ AddCallback(c) PROVE KeptInv'
  BY <1>5 DEF Register, StartTimer, AddCallback
<1>6. ASSUME NEW c \in Calls, OnDone(c) \/ OnDoneSettles(c) \/ OnDoneReports(c) PROVE KeptInv'
  BY <1>6 DEF OnDone, OnDoneSettles, OnDoneReports
<1>7. ASSUME NEW c \in Calls, TimerExpires(c) \/ OnTimeout(c) PROVE KeptInv'
  BY <1>7 DEF TimerExpires, OnTimeout
<1>8. ASSUME NEW c \in Calls, OnTimeoutCancels(c) \/ OnTimeoutReports(c) PROVE KeptInv'
  BY <1>8 DEF OnTimeoutCancels, OnTimeoutReports
<1>. QED
  BY <1>1, <1>2, <1>3, <1>4, <1>5, <1>6, <1>7, <1>8
  DEF Next, StopStep, ExecuteStep, DoneStep, TimerStep

(* A call that execute() accepted and of which nothing has become yet is either  *)
(* pending, with a timer that runs, or in the hands of a thread that will report *)
(* what became of it.                                                        *)
AcceptedIsInHand ==
    \A c \in Calls :
        pc[c] = "accepted" /\ outcome[c] = {} =>
            (c \in pending /\ timer[c] \in {"running", "due"}) \/ HeldByCallback(c) \/ HeldByTimer(c)

(* Whatever the result, the timeout and stop() do, no interleaving of theirs      *)
(* loses an accepted call (_on_done, _on_timeout, stop).                       *)
THEOREM AcceptedIsNotLost == Spec => []AcceptedIsInHand
<1>1. Init => KeptInv
  BY DEF Init, KeptInv, Unregistered
<1>2. HandInv /\ KeptInv => AcceptedIsInHand
  BY DEF HandInv, TypeOK, OneHand, TimedInv, KeptInv, AcceptedIsInHand, Unregistered, HeldByTimer
<1>. QED
  BY <1>1, <1>2, NextKept, HandAlways, PTL DEF Spec
=============================================================================
