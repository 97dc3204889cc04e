-------------------------- MODULE WifiConfig_proofs --------------------------
(* Theorems about WifiConfig, for any attempts and any LAN readers. *)
EXTENDS WifiConfig, FiniteSetTheorems, TLAPS

USE DEF Goto, Reply, Step, Fails, Threads, callers, nm, shown

LEMMA TextsAreTexts ==
    /\ Nothing \in Texts /\ Err \in Texts
    /\ \A a \in Attempts : Text("CONNECTING", a) \in Texts /\ Result(a) \in Texts
<1>1. \A w \in {"none", "ERR", "CONNECTING", "CONNECTED", "FAILED"}, a \in Attempts \cup {NoAttempt} :
         Text(w, a) \in Texts
  BY DEF Text, Texts
<1>. QED
  BY <1>1 DEF Nothing, Err, Result

LEMMA InitTypeOK == Init => TypeOK
<1>. SUFFICES ASSUME Init PROVE TypeOK
  OBVIOUS
<1>. USE DEF Init
<1>1. skips \in Nat /\ profiles \subseteq Attempts \cup {Old}
  BY WifiAssumption
<1>2. got \in [Threads -> Texts] /\ ble \in Texts /\ lan \in Texts /\ idle \in Seq(Texts)
  BY TextsAreTexts
<1>3. pc \in [Threads -> {"idle", "start", "reply"}]
  OBVIOUS
<1>. QED
  BY <1>1, <1>2, <1>3 DEF TypeOK

(* Profiles are attempts', and one more: there are finitely many. *)
LEMMA KeptIsCounted ==
    ASSUME TypeOK, NEW kept \in SUBSET profiles
    PROVE  IsFiniteSet(kept) /\ Cardinality(kept) \in Nat
<1>1. IsFiniteSet(Attempts \cup {Old})
  BY WifiAssumption, FS_AddElement
<1>2. kept \subseteq Attempts \cup {Old}
  BY DEF TypeOK
<1>3. IsFiniteSet(kept)
  BY <1>1, <1>2, FS_Subset
<1>. QED
  BY <1>3, FS_CardinalityType

LEMMA NextTypeOK == TypeOK /\ [Next]_vars => TypeOK'
<1>. SUFFICES ASSUME TypeOK, [Next]_vars PROVE TypeOK'
  OBVIOUS
<1>. USE WifiAssumption, TextsAreTexts DEF TypeOK
<1>1. ASSUME Serve PROVE TypeOK'
  BY <1>1 DEF Serve
<1>2. ASSUME NEW t \in Threads, Refuse(t) \/ Accept(t) PROVE TypeOK'
  <2>1. CASE Refuse(t)
    BY <2>1 DEF Refuse
  <2>2. CASE Accept(t)
    <3>1. PICK a \in Attempts : Accept(t)!4!(a)
      BY <2>2 DEF Accept
    <3>. QED
      BY <2>2, <3>1 DEF Accept
  <2>. QED
    BY <1>2, <2>1, <2>2
<1>3. ASSUME NEW t \in Threads, StartWorker(t) PROVE TypeOK'
  BY <1>3 DEF StartWorker
<1>4. ASSUME NEW t \in Threads, ReplyBle \/ ReplyLan(t) PROVE TypeOK'
  BY <1>4 DEF ReplyBle, ReplyLan
<1>5. ASSUME NEW a \in Attempts, DeleteProfiles(a) PROVE TypeOK'
  <2>1. PICK kept \in SUBSET profiles : DeleteProfiles(a)!1!(kept)
    BY <1>5 DEF DeleteProfiles
  <2>2. skips' \in Nat
    BY <2>1, KeptIsCounted
  <2>. QED
    BY <1>5, <2>1, <2>2 DEF DeleteProfiles
<1>6. ASSUME NEW a \in Attempts, AddProfile(a) PROVE TypeOK'
  BY <1>6 DEF AddProfile
<1>7. ASSUME NEW a \in Attempts, WaitEnds(a) \/ Finish(a) PROVE TypeOK'
  BY <1>7 DEF WaitEnds, Finish
<1>8. ASSUME NEW a \in Attempts, ReportBle(a) \/ ReportLan(a) PROVE TypeOK'
  <2>1. Result(a) \in Texts /\ Append(idle, Result(a)) \in Seq(Texts)
    BY TextsAreTexts
  <2>. HIDE DEF Result
  <2>. QED
    BY <1>8, <2>1 DEF ReportBle, ReportLan
<1>9. ASSUME UpdateBle PROVE TypeOK'
  BY <1>9 DEF UpdateBle
<1>10. CASE UNCHANGED vars
  BY <1>10 DEF vars
<1>. QED
  BY <1>1, <1>2, <1>3, <1>4, <1>5, <1>6, <1>7, <1>8, <1>9, <1>10
  DEF Next, CallerStep, WorkerStep

(* Type correctness, for any number of attempts and LAN readers. *)
THEOREM TypeCorrect == Spec => []TypeOK
BY InitTypeOK, NextTypeOK, PTL DEF Spec

-----------------------------------------------------------------------------
(* A thread that is about to start a worker is the only one, and its attempt   *)
(* is the one that holds busy.                                               *)
Starter(t) ==
    /\ got[t].what = "CONNECTING"
    /\ got[t].of \in Attempts
    /\ stage[got[t].of] = "accepted"

BusyInv ==
    /\ OneAttempt
    /\ \A a \in Attempts : Running(a) => busy
    /\ \A t \in Threads : pc[t] = "start" => Starter(t)
    /\ \A t, u \in Threads : pc[t] = "start" /\ pc[u] = "start" => t = u

(* What the worker has in hand while the others are kept out. *)
ProfileInv ==
    /\ skips <= MaxSkips
    /\ \A a \in Attempts :
         /\ stage[a] = "add" => (skips = MaxSkips => profiles = {})
         /\ stage[a] = "wait" \/ (stage[a] = "finish" /\ code[a] = "connected") =>
              a \in profiles /\ (skips = MaxSkips => profiles = {a})

(* An attempt that is shown as CONNECTING over BLE, or about to be, has its     *)
(* result still to come.                                                    *)
ToCome(a) ==
    \/ Running(a) \/ stage[a] = "report"
    \/ \E i \in 1..Len(idle) : idle[i].of = a

ShownInv ==
    /\ \A i \in 1..Len(idle) :
         idle[i].what # "CONNECTING" /\ idle[i].of \in Attempts /\ stage[idle[i].of] \in {"reportLan", "done"}
    /\ ble.what = "CONNECTING" =>
         serving /\ ble.of \in Attempts /\ ToCome(ble.of) /\ stage[ble.of] # "accepted"
    /\ got[Glib].what = "CONNECTING" =>
         /\ serving /\ got[Glib].of \in Attempts /\ ToCome(got[Glib].of)
         /\ pc[Glib] # "idle"
         /\ pc[Glib] = "reply" => stage[got[Glib].of] # "accepted"

IInv == TypeOK /\ BusyInv /\ ProfileInv /\ ShownInv

LEMMA InitInv == Init => IInv
<1>. SUFFICES ASSUME Init PROVE IInv
  OBVIOUS
<1>1. BusyInv
  BY DEF Init, BusyInv, OneAttempt, Running
<1>2. ProfileInv
  BY WifiAssumption DEF Init, ProfileInv
<1>3. ShownInv
  BY WifiAssumption DEF Init, ShownInv, Nothing, Text
<1>. QED
  BY <1>1, <1>2, <1>3, InitTypeOK DEF IInv

(* Only Accept makes an attempt run, and it asks for busy to be clear. *)
LEMMA NextBusy == TypeOK /\ BusyInv /\ [Next]_vars => BusyInv'
<1>. SUFFICES ASSUME TypeOK, BusyInv, [Next]_vars PROVE BusyInv'
  OBVIOUS
<1>. USE WifiAssumption DEF TypeOK, BusyInv, OneAttempt, Running, Starter
<1>1. ASSUME Serve \/ UpdateBle PROVE BusyInv'
  BY <1>1 DEF Serve, UpdateBle
<1>2. ASSUME NEW t \in Threads, Refuse(t) PROVE BusyInv'
  BY <1>2 DEF Refuse
<1>3. ASSUME NEW t \in Threads, Accept(t) PROVE BusyInv'
  <2>1. PICK a \in Attempts : Accept(t)!4!(a)
    BY <1>3 DEF Accept
  <2>2. \A b \in Attempts : ~Running(b)
    BY <1>3 DEF Accept
  <2>3. \A u \in Threads : pc[u] # "start"
    BY <2>2
  <2>. QED
    BY <1>3, <2>1, <2>2, <2>3 DEF Accept, Text
<1>4. ASSUME NEW t \in Threads, StartWorker(t) PROVE BusyInv'
  <2>1. Starter(t) /\ \A u \in Threads : pc'[u] # "start"
    BY <1>4 DEF StartWorker
  <2>. QED
    BY <1>4, <2>1 DEF StartWorker
<1>5. ASSUME NEW t \in Threads, (t = Glib /\ ReplyBle) \/ ReplyLan(t) PROVE BusyInv'
  <2>1. \A u \in Threads : pc'[u] = "start" => pc[u] = "start" /\ got'[u] = got[u]
    BY <1>5 DEF ReplyBle, ReplyLan
  <2>. QED
    BY <1>5, <2>1 DEF ReplyBle, ReplyLan
<1>6. ASSUME NEW a \in Attempts, DeleteProfiles(a) PROVE BusyInv'
  BY <1>6 DEF DeleteProfiles
<1>7. ASSUME NEW a \in Attempts, AddProfile(a) \/ WaitEnds(a) PROVE BusyInv'
  <2>1. CASE AddProfile(a)
    BY <2>1 DEF AddProfile
  <2>2. CASE WaitEnds(a)
    BY <2>2 DEF WaitEnds
  <2>. QED
    BY <1>7, <2>1, <2>2
<1>8. ASSUME NEW a \in Attempts, Finish(a) PROVE BusyInv'
  BY <1>8 DEF Finish
<1>9. ASSUME NEW a \in Attempts, ReportBle(a) \/ ReportLan(a) PROVE BusyInv'
  BY <1>9 DEF ReportBle, ReportLan
<1>10. CASE UNCHANGED vars
  BY <1>10 DEF vars
<1>. QED
  BY <1>1, <1>2, <1>3, <1>4, <1>5, <1>6, <1>7, <1>8, <1>9, <1>10
  DEF Next, CallerStep, WorkerStep

(* While an attempt runs nobody else touches the profiles. *)
LEMMA NextProfile == TypeOK /\ BusyInv /\ ProfileInv /\ [Next]_vars => ProfileInv'
<1>. SUFFICES ASSUME TypeOK, BusyInv, ProfileInv, [Next]_vars PROVE ProfileInv'
  OBVIOUS
<1>. USE WifiAssumption DEF TypeOK, ProfileInv
<1>1. ASSUME Serve \/ UpdateBle PROVE ProfileInv'
  BY <1>1 DEF Serve, UpdateBle
<1>2. ASSUME NEW t \in Threads, Refuse(t) \/ Accept(t) \/ CallerStep(t) PROVE ProfileInv'
  BY <1>2 DEF Refuse, Accept, CallerStep, StartWorker, ReplyBle, ReplyLan
<1>3. ASSUME NEW a \in Attempts, DeleteProfiles(a) PROVE ProfileInv'
  <2>1. PICK kept \in SUBSET profiles : DeleteProfiles(a)!1!(kept)
    BY <1>3 DEF DeleteProfiles
  <2>2. IsFiniteSet(kept) /\ Cardinality(kept) \in Nat
    BY KeptIsCounted
  <2>3. Cardinality(kept) = 0 => kept = {}
    BY <2>2, FS_EmptySet
  <2>4. \A b \in Attempts : b # a => stage[b] \notin {"add", "wait", "finish"}
    BY <1>3 DEF DeleteProfiles, BusyInv, OneAttempt, Running
  <2>. QED
    BY <2>1, <2>2, <2>3, <2>4
<1>4. ASSUME NEW a \in Attempts, AddProfile(a) PROVE ProfileInv'
  <2>1. \A b \in Attempts : b # a => stage[b] \notin {"add", "wait", "finish"}
    BY <1>4 DEF AddProfile, BusyInv, OneAttempt, Running
  <2>2. CASE AddProfile(a)!1!1
    BY <1>4, <2>1, <2>2 DEF AddProfile
  <2>3. CASE AddProfile(a)!1!2
    BY <1>4, <2>1, <2>3 DEF AddProfile
  <2>. QED
    BY <1>4, <2>2, <2>3 DEF AddProfile
<1>5. ASSUME NEW a \in Attempts, WaitEnds(a) \/ Finish(a) PROVE ProfileInv'
  BY <1>5 DEF WaitEnds, Finish
<1>6. ASSUME NEW a \in Attempts, ReportBle(a) \/ ReportLan(a) PROVE ProfileInv'
  BY <1>6 DEF ReportBle, ReportLan
<1>7. CASE UNCHANGED vars
  BY <1>7 DEF vars
<1>. QED
  BY <1>1, <1>2, <1>3, <1>4, <1>5, <1>6, <1>7 DEF Next, WorkerStep

(* A result goes through the GLib thread, which is not idle between the        *)
(* acceptance of a request and its reply.                                    *)
LEMMA NextShown == TypeOK /\ BusyInv /\ ShownInv /\ [Next]_vars => ShownInv'
<1>. SUFFICES ASSUME TypeOK, BusyInv, ShownInv, [Next]_vars PROVE ShownInv'
  OBVIOUS
<1>. USE WifiAssumption DEF TypeOK, ShownInv, ToCome, Running
<1>1. ASSUME Serve PROVE ShownInv'
  BY <1>1 DEF Serve
<1>2. ASSUME NEW t \in Threads, Refuse(t) PROVE ShownInv'
  BY <1>2 DEF Refuse, Err, Text
<1>3. ASSUME NEW t \in Threads, Accept(t) PROVE ShownInv'
  <2>1. PICK a \in Attempts : Accept(t)!4!(a)
    BY <1>3 DEF Accept
  <2>3. \A b \in Attempts : ToCome(b) => b # a /\ ToCome(b)'
    BY <1>3, <2>1 DEF Accept
  <2>4. ToCome(a)' /\ stage'[a] = "accepted"
    BY <2>1
  <2>5. \A i \in 1..Len(idle') : idle'[i] = idle[i] /\ idle[i].of # a
    BY <1>3, <2>1 DEF Accept
  <2>6. CASE t = Glib
    BY <1>3, <2>1, <2>3, <2>4, <2>5, <2>6 DEF Accept, Text
  <2>7. CASE t # Glib
    BY <1>3, <2>1, <2>3, <2>5, <2>7 DEF Accept
  <2>. QED
    BY <2>6, <2>7
<1>4. ASSUME NEW t \in Threads, StartWorker(t) PROVE ShownInv'
  BY <1>4 DEF StartWorker, Err, Text, BusyInv, Starter
<1>5. ASSUME NEW t \in Threads, (t = Glib /\ ReplyBle) \/ ReplyLan(t) PROVE ShownInv'
  BY <1>5 DEF ReplyBle, ReplyLan, Nothing, Text
<1>6. ASSUME NEW a \in Attempts, DeleteProfiles(a) PROVE ShownInv'
  BY <1>6 DEF DeleteProfiles
<1>7. ASSUME NEW a \in Attempts, AddProfile(a) \/ WaitEnds(a) PROVE ShownInv'
  BY <1>7 DEF AddProfile, WaitEnds
<1>8. ASSUME NEW a \in Attempts, Finish(a) \/ ReportLan(a) PROVE ShownInv'
  BY <1>8 DEF Finish, ReportLan
<1>9. ASSUME NEW a \in Attempts, ReportBle(a) PROVE ShownInv'
  <2>1. CASE serving
    <3>1. idle' = Append(idle, Result(a)) /\ Result(a).of = a /\ Result(a).what # "CONNECTING"
      BY <1>9, <2>1 DEF ReportBle, Result, Text
    <3>2. \A b : ToCome(b) /\ b \in Attempts => ToCome(b)'
      BY <1>9, <3>1 DEF ReportBle
    <3>3. \A i \in 1..Len(idle') :
            \/ i \in 1..Len(idle) /\ idle'[i] = idle[i]
            \/ idle'[i] = Result(a)
      BY <3>1
    <3>4. stage' = [stage EXCEPT ![a] = "reportLan"] /\ UNCHANGED <<pc, got, serving, ble>>
      BY <1>9 DEF ReportBle
    <3>5. \A i \in 1..Len(idle') :
            idle'[i].what # "CONNECTING" /\ idle'[i].of \in Attempts
              /\ stage'[idle'[i].of] \in {"reportLan", "done"}
      BY <3>1, <3>3, <3>4
    <3>6. \A b \in Attempts : stage[b] # "accepted" => stage'[b] # "accepted"
      BY <3>4
    <3>. QED
      BY <3>2, <3>4, <3>5, <3>6
  <2>2. CASE ~serving
    BY <1>9, <2>2 DEF ReportBle
  <2>. QED
    BY <2>1, <2>2
<1>10. ASSUME UpdateBle PROVE ShownInv'
  <2>1. Head(idle) = idle[1] /\ 1 \in 1..Len(idle)
    BY <1>10 DEF UpdateBle
  <2>2. ble'.what # "CONNECTING" /\ got[Glib].what # "CONNECTING"
    BY <1>10, <2>1 DEF UpdateBle
  <2>3. \A i \in 1..Len(idle') : idle'[i] = idle[i + 1] /\ i + 1 \in 1..Len(idle)
    BY <1>10 DEF UpdateBle
  <2>. QED
    BY <1>10, <2>2, <2>3 DEF UpdateBle
<1>11. CASE UNCHANGED vars
  BY <1>11 DEF vars
<1>. QED
  BY <1>1, <1>2, <1>3, <1>4, <1>5, <1>6, <1>7, <1>8, <1>9, <1>10, <1>11
  DEF Next, CallerStep, WorkerStep

LEMMA InvAlways == Spec => []IInv
<1>1. IInv /\ [Next]_vars => IInv'
  BY NextTypeOK, NextBusy, NextProfile, NextShown DEF IInv
<1>. QED
  BY InitInv, <1>1, PTL DEF Spec

(* Attempts never overlap, whatever threads request them.  wifi_config.py:118-131 *)
(* and 169-171.                                                              *)
THEOREM NoOverlap == Spec => []OneAttempt
<1>1. IInv => OneAttempt
  BY DEF IInv, BusyInv
<1>. QED
  BY InvAlways, <1>1, PTL

(* A success leaves the attempt's profile, and no older one that could be read. *)
THEOREM SuccessIsSaved == Spec => []ConnectedIsSaved
<1>1. IInv => ConnectedIsSaved
  BY DEF IInv, ProfileInv, ConnectedIsSaved
<1>. QED
  BY InvAlways, <1>1, PTL

(* Once nothing is going on the characteristic does not show CONNECTING, for    *)
(* any number of attempts over both transports.                              *)
THEOREM CharacteristicSettles == Spec => []OutcomeIsShown
<1>1. IInv => OutcomeIsShown
  BY DEF IInv, ShownInv, ToCome, Running, OutcomeIsShown, Settled
<1>. QED
  BY InvAlways, <1>1, PTL
-----------------------------------------------------------------------------
(* The flag is set as long as an attempt holds it, and no longer: an attempt    *)
(* whose worker could not be started is the only one that keeps it for good.   *)
BusyIsHeld ==
    /\ busy <=> \E a \in Attempts : Holds(a)
    /\ \A a, b \in Attempts : Holds(a) /\ Holds(b) => a = b

LEMMA NextHeld == TypeOK /\ BusyInv /\ BusyIsHeld /\ [Next]_vars => BusyIsHeld'
<1>. SUFFICES ASSUME TypeOK, BusyInv, BusyIsHeld, [Next]_vars PROVE BusyIsHeld'
  OBVIOUS
<1>. USE WifiAssumption DEF TypeOK, BusyIsHeld, Holds, Running
<1>1. ASSUME Serve \/ UpdateBle PROVE BusyIsHeld'
  BY <1>1 DEF Serve, UpdateBle
<1>2. ASSUME NEW t \in Threads, Refuse(t) \/ (t = Glib /\ ReplyBle) \/ ReplyLan(t) PROVE BusyIsHeld'
  BY <1>2 DEF Refuse, ReplyBle, ReplyLan
<1>3. ASSUME NEW t \in Threads, Accept(t) PROVE BusyIsHeld'
  <2>1. PICK a \in Attempts : Accept(t)!4!(a)
    BY <1>3 DEF Accept
  <2>2. busy' = TRUE /\ \A b \in Attempts : ~Holds(b)
    BY <1>3 DEF Accept
  <2>. QED
    BY <2>1, <2>2
<1>4. ASSUME NEW t \in Threads, StartWorker(t) PROVE BusyIsHeld'
  <2>1. got[t].of \in Attempts /\ stage[got[t].of] = "accepted"
    BY <1>4 DEF StartWorker, BusyInv, Starter
  <2>. QED
    BY <1>4, <2>1 DEF StartWorker
<1>5. ASSUME NEW a \in Attempts, DeleteProfiles(a) PROVE BusyIsHeld'
  BY <1>5 DEF DeleteProfiles
<1>6. ASSUME NEW a \in Attempts, AddProfile(a) \/ WaitEnds(a) PROVE BusyIsHeld'
  BY <1>6 DEF AddProfile, WaitEnds
<1>7. ASSUME NEW a \in Attempts, Finish(a) PROVE BusyIsHeld'
  BY <1>7 DEF Finish
<1>8. ASSUME NEW a \in Attempts, ReportBle(a) \/ ReportLan(a) PROVE BusyIsHeld'
  BY <1>8 DEF ReportBle, ReportLan
<1>9. CASE UNCHANGED vars
  BY <1>9 DEF vars
<1>. QED
  BY <1>1, <1>2, <1>3, <1>4, <1>5, <1>6, <1>7, <1>8, <1>9 DEF Next, CallerStep, WorkerStep

(* A new request can be accepted whenever no attempt runs and no worker was     *)
(* refused its thread: whatever NetworkManager did, the finally of _run has     *)
(* cleared _busy (wifi_config.py:128-131 and 165-171).                       *)
THEOREM BusyIsReleased == Spec => []BusyIsHeld
<1>1. Init => BusyIsHeld
  BY DEF Init, BusyIsHeld, Holds, Running
<1>2. IInv /\ BusyIsHeld /\ [Next]_vars => BusyIsHeld'
  BY NextHeld DEF IInv
<1>. QED
  BY InvAlways, <1>1, <1>2, PTL DEF Spec

(* A text that names an outcome names that of its attempt, which has ended.     *)
Tells(text) == text.what \in {"CONNECTED", "FAILED"}

TrueText(text) ==
    Tells(text) =>
        /\ text.of \in Attempts /\ stage[text.of] \in {"reportLan", "done"}
        /\ text.what = IF code[text.of] = "connected" THEN "CONNECTED" ELSE "FAILED"

ResultsAreTrue ==
    /\ TrueText(ble) /\ TrueText(lan)
    /\ \A i \in 1..Len(idle) : TrueText(idle[i])

RepliesTellNone == \A t \in Threads : ~Tells(got[t])

LEMMA NextTrue ==
    TypeOK /\ BusyInv /\ ResultsAreTrue /\ RepliesTellNone /\ [Next]_vars
      => ResultsAreTrue' /\ RepliesTellNone'
<1>. SUFFICES ASSUME TypeOK, BusyInv, ResultsAreTrue, RepliesTellNone, [Next]_vars
              PROVE  ResultsAreTrue' /\ RepliesTellNone'
  OBVIOUS
<1>. USE WifiAssumption DEF TypeOK, ResultsAreTrue, RepliesTellNone, TrueText, Tells
<1>1. ASSUME Serve PROVE ResultsAreTrue' /\ RepliesTellNone'
  BY <1>1 DEF Serve
<1>2. ASSUME UpdateBle PROVE ResultsAreTrue' /\ RepliesTellNone'
  <2>1. ble' = idle[1] /\ 1 \in 1..Len(idle) /\ UNCHANGED <<stage, code, lan, got>>
    BY <1>2 DEF UpdateBle
  <2>2. \A i \in 1..Len(idle') : idle'[i] = idle[i + 1] /\ i + 1 \in 1..Len(idle)
    BY <1>2 DEF UpdateBle
  <2>. QED
    BY <2>1, <2>2
<1>3. ASSUME NEW t \in Threads, Refuse(t) \/ Accept(t) \/ StartWorker(t)
      PROVE  ResultsAreTrue' /\ RepliesTellNone'
  <2>1. RepliesTellNone'
    BY <1>3 DEF Refuse, Accept, StartWorker, Err, Text
  <2>2. CASE Refuse(t)
    BY <2>1, <2>2 DEF Refuse
  <2>3. CASE Accept(t)
    BY <2>1, <2>3 DEF Accept
  <2>4. CASE StartWorker(t)
    BY <2>1, <2>4 DEF StartWorker, BusyInv, Starter
  <2>. QED
    BY <1>3, <2>2, <2>3, <2>4
<1>4. ASSUME NEW t \in Threads, (t = Glib /\ ReplyBle) \/ ReplyLan(t)
      PROVE  ResultsAreTrue' /\ RepliesTellNone'
  BY <1>4 DEF ReplyBle, ReplyLan, Nothing, Text
<1>5. ASSUME NEW a \in Attempts, DeleteProfiles(a) \/ AddProfile(a) \/ WaitEnds(a) \/ Finish(a)
      PROVE  ResultsAreTrue' /\ RepliesTellNone'
  <2>1. /\ stage[a] \notin {"reportLan", "done"}
        /\ \A b \in Attempts \ {a} : stage'[b] = stage[b] /\ code'[b] = code[b]
        /\ UNCHANGED <<got, ble, lan, idle>>
    BY <1>5 DEF DeleteProfiles, AddProfile, WaitEnds, Finish
  <2>. QED
    BY <2>1
<1>6. ASSUME NEW a \in Attempts, ReportBle(a) PROVE ResultsAreTrue' /\ RepliesTellNone'
  <2>1. /\ stage' = [stage EXCEPT ![a] = "reportLan"]
        /\ UNCHANGED <<code, got, ble, lan>>
        /\ idle' = IF serving THEN Append(idle, Result(a)) ELSE idle
    BY <1>6 DEF ReportBle
  <2>2. TrueText(Result(a))'
    BY <2>1 DEF Result, Text
  <2>3. \A i \in 1..Len(idle') : (i \in 1..Len(idle) /\ idle'[i] = idle[i]) \/ idle'[i] = Result(a)
    BY <2>1
  <2>4. Result(a)' = Result(a)
    BY <2>1 DEF Result
  <2>. QED
    BY <2>1, <2>2, <2>3, <2>4, <1>6 DEF ReportBle
<1>7. ASSUME NEW a \in Attempts, ReportLan(a) PROVE ResultsAreTrue' /\ RepliesTellNone'
  BY <1>7 DEF ReportLan, Result, Text
<1>8. CASE UNCHANGED vars
  BY <1>8 DEF vars
<1>. QED
  BY <1>1, <1>2, <1>3, <1>4, <1>5, <1>6, <1>7, <1>8 DEF Next, CallerStep, WorkerStep

(* Neither transport ever shows, or is about to show, an outcome that the        *)
(* attempt did not have, or has not had yet (_publish_wifi_result of main.py).   *)
THEOREM OutcomesAreTrue == Spec => []ResultsAreTrue
<1>1. Init => ResultsAreTrue /\ RepliesTellNone
  BY DEF Init, ResultsAreTrue, RepliesTellNone, TrueText, Tells, Nothing, Text
<1>2. IInv /\ ResultsAreTrue /\ RepliesTellNone /\ [Next]_vars => ResultsAreTrue' /\ RepliesTellNone'
  BY NextTrue DEF IInv
<1>. QED
  BY InvAlways, <1>1, <1>2, PTL DEF Spec
-----------------------------------------------------------------------------
(* WifiConfig implements Provisioning.  What is added to the invariants above:   *)
(* an attempt that is over has an outcome, and a reply that is on its way names *)
(* an attempt that was accepted, or none.                                    *)
Over(a) == stage[a] \in {"report", "reportLan", "done"}

OutcomeInv ==
    /\ \A a \in Attempts : stage[a] = "finish" \/ Over(a) => code[a] \in {"connected", "failed"}
    /\ \A t \in Threads :
         got[t].what = "CONNECTING" => got[t].of \in Attempts /\ stage[got[t].of] # "unborn"

LEMMA NextOutcome == TypeOK /\ BusyInv /\ OutcomeInv /\ [Next]_vars => OutcomeInv'
<1>. SUFFICES ASSUME TypeOK, BusyInv, OutcomeInv, [Next]_vars PROVE OutcomeInv'
  OBVIOUS
<1>. USE WifiAssumption DEF TypeOK, OutcomeInv, Over
<1>1. ASSUME Serve \/ UpdateBle PROVE OutcomeInv'
  BY <1>1 DEF Serve, UpdateBle
<1>2. ASSUME NEW t \in Threads, Refuse(t) PROVE OutcomeInv'
  BY <1>2 DEF Refuse, Err, Text
<1>3. ASSUME NEW t \in Threads, Accept(t) PROVE OutcomeInv'
  BY <1>3 DEF Accept, Text
<1>4. ASSUME NEW t \in Threads, StartWorker(t) PROVE OutcomeInv'
  BY <1>4 DEF StartWorker, Err, Text, BusyInv, Starter
<1>5. ASSUME NEW t \in Threads, (t = Glib /\ ReplyBle) \/ ReplyLan(t) PROVE OutcomeInv'
  BY <1>5 DEF ReplyBle, ReplyLan, Nothing, Text
<1>6. ASSUME NEW a \in Attempts, DeleteProfiles(a) PROVE OutcomeInv'
  BY <1>6 DEF DeleteProfiles
<1>7. ASSUME NEW a \in Attempts, AddProfile(a) \/ WaitEnds(a) PROVE OutcomeInv'
  BY <1>7 DEF AddProfile, WaitEnds
<1>8. ASSUME NEW a \in Attempts, Finish(a) \/ ReportBle(a) \/ ReportLan(a) PROVE OutcomeInv'
  BY <1>8 DEF Finish, ReportBle, ReportLan
<1>9. CASE UNCHANGED vars
  BY <1>9 DEF vars
<1>. QED
  BY <1>1, <1>2, <1>3, <1>4, <1>5, <1>6, <1>7, <1>8, <1>9 DEF Next, CallerStep, WorkerStep

PromiseInv == IInv /\ BusyIsHeld /\ ResultsAreTrue /\ RepliesTellNone /\ OutcomeInv

LEMMA PromiseAlways == Spec => []PromiseInv
<1>1. Init => BusyIsHeld /\ ResultsAreTrue /\ RepliesTellNone /\ OutcomeInv
  BY DEF Init, BusyIsHeld, Holds, Running, ResultsAreTrue, RepliesTellNone, TrueText, Tells,
         OutcomeInv, Over, Nothing, Text
<1>2. PromiseInv /\ [Next]_vars => (BusyIsHeld /\ ResultsAreTrue /\ RepliesTellNone /\ OutcomeInv)'
  BY NextHeld, NextTrue, NextOutcome DEF PromiseInv, IInv
<1>. QED
  BY InvAlways, <1>1, <1>2, PTL DEF Spec, PromiseInv

(* The abstract state, before and after a step. *)
States == [a \in Attempts |-> Progress(a)]
Shown == [tr \in {"ble", "lan"} |-> IF tr = "ble" THEN ble ELSE lan]

LEMMA SameProgress ==
    ASSUME UNCHANGED <<ble, lan>>, \A a \in Attempts : Progress(a)' = Progress(a)
    PROVE  UNCHANGED <<States, Shown>>
BY DEF States, Shown

LEMMA OneProgress ==
    ASSUME NEW a \in Attempts, NEW to, Progress(a)' = to,
           \A b \in Attempts \ {a} : Progress(b)' = Progress(b)
    PROVE  States' = [States EXCEPT ![a] = to]
BY DEF States

(* A text that comes to be shown is true. *)
LEMMA ShowsTrue ==
    ASSUME NEW tr \in {"ble", "lan"}, NEW text \in Texts, Promise!IsTrue(text),
           Shown' = [Shown EXCEPT ![tr] = text], States' = States
    PROVE  Promise!Show(tr)
<1>1. text \in Promise!Texts
  BY DEF Texts, Promise!Texts, Promise!Whats
<1>. QED
  BY <1>1 DEF Promise!Show, States, Shown

LEMMA OutcomeIsTrue ==
    ASSUME PromiseInv, NEW text \in Texts, TrueText(text), Tells(text)
    PROVE  Promise!IsTrue(text)
<1>1. /\ text.of \in Attempts /\ Over(text.of)
      /\ text.what = IF code[text.of] = "connected" THEN "CONNECTED" ELSE "FAILED"
  BY DEF TrueText, Over
<1>2. code[text.of] \in {"connected", "failed"}
  BY <1>1 DEF PromiseInv, OutcomeInv
<1>3. States[text.of] = code[text.of]
  BY <1>1 DEF States, Progress, Holds, Running, Over
<1>. QED
  BY <1>1, <1>2, <1>3 DEF Promise!IsTrue, States

LEMMA ReplyIsTrue ==
    ASSUME PromiseInv, NEW t \in Threads
    PROVE  Promise!IsTrue(got[t])
<1>1. got[t] \in Texts /\ ~Tells(got[t])
  BY DEF PromiseInv, IInv, TypeOK, RepliesTellNone
<1>2. CASE got[t].what = "CONNECTING"
  <2>1. got[t].of \in Attempts /\ stage[got[t].of] # "unborn"
    BY <1>2 DEF PromiseInv, OutcomeInv
  <2>2. Progress(got[t].of) # "new"
    BY <2>1 DEF Progress, PromiseInv, IInv, TypeOK
  <2>. QED
    BY <1>2, <2>1, <2>2 DEF Promise!IsTrue
<1>. QED
  BY <1>1, <1>2 DEF Promise!IsTrue, Texts, Tells

LEMMA InitPromise == Init => Promise!Init
<1>. SUFFICES ASSUME Init PROVE Promise!Init
  OBVIOUS
<1>1. ASSUME NEW a \in Attempts PROVE Progress(a) = "new"
  <2>1. stage[a] = "unborn" /\ ~Holds(a)
    BY DEF Init, Holds, Running
  <2>. QED
    BY <2>1 DEF Progress
<1>2. States = [a \in Attempts |-> "new"]
  BY <1>1 DEF States
<1>3. Shown = [tr \in {"ble", "lan"} |-> [what |-> "none", of |-> NoAttempt]]
  BY DEF Init, Shown, Nothing, Text
<1>. QED
  BY <1>2, <1>3, Zenon DEF Promise!Init, States, Shown

(* Every step is a step of Provisioning, or shows nothing. *)
LEMMA NextPromise == PromiseInv /\ [Next]_vars => [Promise!Next]_(Promise!vars)
<1>. SUFFICES ASSUME PromiseInv, [Next]_vars
              PROVE  Promise!Next \/ UNCHANGED <<States, Shown>>
  BY DEF Promise!vars, States, Shown
<1>t. TypeOK /\ BusyInv
  BY DEF PromiseInv, IInv
<1>1. ASSUME UNCHANGED <<stage, code, ble, lan>> PROVE UNCHANGED <<States, Shown>>
  BY <1>1 DEF States, Shown, Progress, Holds, Running
<1>2. ASSUME NEW t \in Threads, Accept(t) PROVE \E a \in Attempts : Promise!Begin(a)
  <2>1. PICK a \in Attempts : stage[a] = "unborn" /\ stage' = [stage EXCEPT ![a] = "accepted"]
    BY <1>2 DEF Accept
  <2>2. ~busy /\ UNCHANGED <<code, ble, lan>>
    BY <1>2 DEF Accept, shown
  <2>3. \A b \in Attempts : Progress(b) # "going"
    BY <2>2, <1>t DEF Progress, PromiseInv, BusyIsHeld, TypeOK
  <2>4. /\ Progress(a) = "new" /\ Progress(a)' = "going"
        /\ \A b \in Attempts \ {a} : Progress(b)' = Progress(b)
    BY <2>1, <2>2, <1>t DEF Progress, Holds, Running, TypeOK
  <2>5. States' = [States EXCEPT ![a] = "going"]
    BY <2>4, OneProgress
  <2>6. Shown' = Shown
    BY <2>2 DEF Shown
  <2>7. Promise!Begin(a)
    BY <2>3, <2>4, <2>5, <2>6 DEF Promise!Begin, States, Shown
  <2>. QED
    BY <2>7
<1>3. ASSUME NEW t \in Threads, StartWorker(t) PROVE UNCHANGED <<States, Shown>>
  <2>1. got[t].of \in Attempts /\ stage[got[t].of] = "accepted"
    BY <1>3, <1>t DEF StartWorker, BusyInv, Starter
  <2>2. \E to \in {"delete", "lost"} : stage' = [stage EXCEPT ![got[t].of] = to]
    BY <1>3 DEF StartWorker
  <2>3. UNCHANGED <<code, ble, lan>>
    BY <1>3 DEF StartWorker, shown
  <2>4. \A a \in Attempts : Progress(a)' = Progress(a)
    BY <2>1, <2>2, <2>3, <1>t DEF Progress, Holds, Running, TypeOK
  <2>. QED
    BY <2>3, <2>4, SameProgress
<1>4. ASSUME ReplyBle PROVE Promise!Show("ble")
  <2>1. ble' = got[Glib] /\ UNCHANGED <<stage, code, lan>>
    BY <1>4 DEF ReplyBle
  <2>2. States' = States /\ Shown' = [Shown EXCEPT !["ble"] = got[Glib]]
    BY <2>1 DEF States, Shown, Progress, Holds, Running
  <2>3. Glib \in Threads /\ got[Glib] \in Texts
    BY <1>t DEF TypeOK, Threads
  <2>. QED
    BY <2>2, <2>3, ReplyIsTrue, ShowsTrue
<1>5. ASSUME NEW t \in Threads, ReplyLan(t) PROVE Promise!Show("lan")
  <2>1. lan' = got[t] /\ UNCHANGED <<stage, code, ble>>
    BY <1>5 DEF ReplyLan
  <2>2. States' = States /\ Shown' = [Shown EXCEPT !["lan"] = got[t]]
    BY <2>1 DEF States, Shown, Progress, Holds, Running
  <2>3. got[t] \in Texts
    BY <1>t DEF TypeOK
  <2>. QED
    BY <2>2, <2>3, ReplyIsTrue, ShowsTrue
<1>6. ASSUME NEW a \in Attempts, DeleteProfiles(a) \/ AddProfile(a) \/ WaitEnds(a)
      PROVE  UNCHANGED <<States, Shown>>
  <2>1. /\ Running(a) /\ stage'[a] \in {"add", "wait", "finish"}
        /\ \A b \in Attempts \ {a} : stage'[b] = stage[b] /\ code'[b] = code[b]
        /\ UNCHANGED <<ble, lan>>
    BY <1>6, <1>t DEF DeleteProfiles, AddProfile, WaitEnds, Step, Fails, Running, shown, TypeOK
  <2>2. \A b \in Attempts : Progress(b)' = Progress(b)
    BY <2>1 DEF Progress, Holds, Running
  <2>. QED
    BY <2>1, <2>2, SameProgress
<1>7. ASSUME NEW a \in Attempts, Finish(a) PROVE Promise!End(a)
  <2>1. stage[a] = "finish" /\ stage' = [stage EXCEPT ![a] = "report"] /\ UNCHANGED <<code, ble, lan>>
    BY <1>7 DEF Finish, Step, shown
  <2>2. code[a] \in {"connected", "failed"}
    BY <2>1 DEF PromiseInv, OutcomeInv
  <2>3. /\ Progress(a) = "going" /\ Progress(a)' = code[a]
        /\ \A b \in Attempts \ {a} : Progress(b)' = Progress(b)
    BY <2>1, <1>t DEF Progress, Holds, Running, TypeOK
  <2>4. States' = [States EXCEPT ![a] = code[a]] /\ Shown' = Shown
    BY <2>1, <2>3, OneProgress DEF Shown
  <2>. QED
    BY <2>2, <2>3, <2>4 DEF Promise!End, States, Shown
<1>8. ASSUME NEW a \in Attempts, ReportBle(a) PROVE UNCHANGED <<States, Shown>>
  <2>1. /\ stage[a] = "report" /\ stage' = [stage EXCEPT ![a] = "reportLan"]
        /\ UNCHANGED <<code, ble, lan>>
    BY <1>8 DEF ReportBle, Step
  <2>2. \A b \in Attempts : Progress(b)' = Progress(b)
    BY <2>1, <1>t DEF Progress, Holds, Running, TypeOK
  <2>. QED
    BY <2>1, <2>2, SameProgress
<1>9. ASSUME NEW a \in Attempts, ReportLan(a) PROVE Promise!Show("lan")
  <2>1. /\ stage[a] = "reportLan" /\ stage' = [stage EXCEPT ![a] = "done"]
        /\ lan' = Result(a) /\ UNCHANGED <<code, ble>>
    BY <1>9 DEF ReportLan, Step
  <2>2. \A b \in Attempts : Progress(b)' = Progress(b)
    BY <2>1, <1>t DEF Progress, Holds, Running, TypeOK
  <2>3. States' = States /\ Shown' = [Shown EXCEPT !["lan"] = Result(a)]
    BY <2>1, <2>2 DEF States, Shown
  <2>4. Result(a) \in Texts /\ TrueText(Result(a)) /\ Tells(Result(a))
    BY <2>1 DEF Result, Text, Texts, TrueText, Tells
  <2>. QED
    BY <2>3, <2>4, OutcomeIsTrue, ShowsTrue
<1>10. ASSUME UpdateBle PROVE Promise!Show("ble")
  <2>1. ble' = idle[1] /\ 1 \in 1..Len(idle) /\ idle[1] \in Texts /\ UNCHANGED <<stage, code, lan>>
    BY <1>10, <1>t DEF UpdateBle, TypeOK
  <2>2. States' = States /\ Shown' = [Shown EXCEPT !["ble"] = idle[1]]
    BY <2>1 DEF States, Shown, Progress, Holds, Running
  <2>3. TrueText(idle[1]) /\ idle[1].what # "CONNECTING"
    BY <2>1 DEF PromiseInv, IInv, ResultsAreTrue, ShownInv
  <2>4. Promise!IsTrue(idle[1])
    <3>1. CASE Tells(idle[1])
      BY <2>1, <2>3, <3>1, OutcomeIsTrue
    <3>2. CASE ~Tells(idle[1])
      BY <2>1, <2>3, <3>2 DEF Promise!IsTrue, Texts, Tells
    <3>. QED
      BY <3>1, <3>2
  <2>. QED
    BY <2>1, <2>2, <2>4, ShowsTrue
<1>11. ASSUME Serve \/ (\E t \in Threads : Refuse(t)) \/ UNCHANGED vars
       PROVE  UNCHANGED <<States, Shown>>
  BY <1>1, <1>11 DEF Serve, Refuse, vars, shown
<1>. QED
  BY <1>2, <1>3, <1>4, <1>5, <1>6, <1>7, <1>8, <1>9, <1>10, <1>11
  DEF Next, CallerStep, WorkerStep, Promise!Next

(* However many attempts are requested over both transports, and whatever        *)
(* fails: they are made one at a time, each has one outcome, and no text is      *)
(* shown that is not true of its attempt.                                     *)
THEOREM ProvisioningImplemented == Spec => ImplementsProvisioning
BY InitPromise, NextPromise, PromiseAlways, PTL DEF Spec, ImplementsProvisioning, Promise!Spec
=============================================================================
