--------------------------- MODULE TaskLifecycle ---------------------------
(***************************************************************************)
(* What the launch-task manager promises, whatever its threads do: a task  *)
(* has at most one launch that STATUS shows as RUNNING or STOPPING, a      *)
(* launch that is STOPPING never runs again, and a launch leaves STATUS    *)
(* once and is then reported once.                                         *)
(***************************************************************************)
CONSTANTS
    Tasks,    \* the tasks
    Launches  \* the launches that can ever happen

VARIABLES
    phase,    \* the life of each launch
    taskOf    \* the task of each launch that is no longer "new"

vars == <<phase, taskOf>>

Phases == {"new", "RUNNING", "STOPPING", "ended", "reported"}

(* The launch of its task that STATUS shows. *)
Visible(l) == phase[l] \in {"RUNNING", "STOPPING"}

Init ==
    /\ phase = [l \in Launches |-> "new"]
    /\ taskOf \in [Launches -> Tasks]

Launch(l, t) ==
    /\ phase[l] = "new"
    /\ \A k \in Launches : Visible(k) => taskOf[k] # t
    /\ phase' = [phase EXCEPT ![l] = "RUNNING"]
    /\ taskOf' = [taskOf EXCEPT ![l] = t]

AskToStop(l) ==
    /\ phase[l] = "RUNNING"
    /\ phase' = [phase EXCEPT ![l] = "STOPPING"]
    /\ UNCHANGED taskOf

End(l) ==
    /\ Visible(l)
    /\ phase' = [phase EXCEPT ![l] = "ended"]
    /\ UNCHANGED taskOf

Report(l) ==
    /\ phase[l] = "ended"
    /\ phase' = [phase EXCEPT ![l] = "reported"]
    /\ UNCHANGED taskOf

Next ==
    \E l \in Launches :
        \/ \E t \in Tasks : Launch(l, t)
        \/ AskToStop(l)
        \/ End(l)
        \/ Report(l)

Spec == Init /\ [][Next]_vars
=============================================================================
