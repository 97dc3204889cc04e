---------------------------- MODULE Provisioning ----------------------------
(***************************************************************************)
(* What WiFi provisioning promises whoever looks at a transport: attempts   *)
(* are made one at a time, an attempt comes to one outcome and keeps it, and *)
(* a text that names an attempt is true of it: it is not shown CONNECTING    *)
(* before it began, nor with an outcome it does not have.                   *)
(***************************************************************************)
CONSTANTS
    Attempts,   \* the attempts that can ever be made
    NoAttempt,  \* what a text that names none is about
    Transports  \* where texts are shown

VARIABLES
    state,  \* of each attempt
    shown   \* the text on each transport

vars == <<state, shown>>

Whats == {"none", "ERR", "CONNECTING", "CONNECTED", "FAILED"}
Texts == [what : Whats, of : Attempts \cup {NoAttempt}]

Init ==
    /\ state = [a \in Attempts |-> "new"]
    /\ shown = [tr \in Transports |-> [what |-> "none", of |-> NoAttempt]]

Begin(a) ==
    /\ state[a] = "new"
    /\ \A b \in Attempts : state[b] # "going"
    /\ state' = [state EXCEPT ![a] = "going"]
    /\ UNCHANGED shown

End(a) ==
    /\ state[a] = "going"
    /\ \E outcome \in {"connected", "failed"} : state' = [state EXCEPT ![a] = outcome]
    /\ UNCHANGED shown

IsTrue(text) ==
    \/ text.what \in {"none", "ERR"}
    \/ /\ text.of \in Attempts
       /\ \/ text.what = "CONNECTING" /\ state[text.of] # "new"
          \/ text.what = "CONNECTED" /\ state[text.of] = "connected"
          \/ text.what = "FAILED" /\ state[text.of] = "failed"

Show(tr) ==
    /\ \E text \in Texts :
         IsTrue(text) /\ shown' = [shown EXCEPT ![tr] = text]
    /\ UNCHANGED state

Next ==
    \/ \E a \in Attempts : Begin(a) \/ End(a)
    \/ \E tr \in Transports : Show(tr)

Spec == Init /\ [][Next]_vars
=============================================================================
