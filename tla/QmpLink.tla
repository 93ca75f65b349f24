------------------------------- MODULE QmpLink -------------------------------
(***************************************************************************)
(* What a QMP connection promises the object that owns it, from the        *)
(* comments of qmpclient.h and the way VmRunner and VmSnapshots use it:    *)
(*   - each attempt to connect ends in at most one of ready() and          *)
(*     connectionFailed(), and disconnected() follows only a ready();      *)
(*   - the callback of a command is called at most once, with the answer   *)
(*     of QEMU while the connection is ready, else with an error;          *)
(*   - when disconnected() is emitted, the commands that were pending when *)
(*     the connection closed have had their callback called.               *)
(* How commands wait, are numbered and travel is left to QmpClient, which  *)
(* implements this specification.                                          *)
(***************************************************************************)
CONSTANT Commands       \* the commands the owner may execute, each at most once

VARIABLES
    link,       \* "none", "waiting" for ready(), "ready", or "closing"
    heard,      \* the last signal since the owner opened or left the connection
    owed,       \* commands whose callback is still to be called
    doomed,     \* those of them whose connection is gone: an error is due
    settled     \* commands whose callback has been called

vars == <<link, heard, owed, doomed, settled>>

Init ==
    /\ link = "none"
    /\ heard = "nothing"
    /\ owed = {}
    /\ doomed = {}
    /\ settled = {}

Execute(c) ==       \* the owner executes c and wants to know the outcome
    /\ c \notin owed \cup settled
    /\ owed' = owed \cup {c}
    /\ UNCHANGED <<link, heard, doomed, settled>>

Connect ==          \* opens a connection, giving up the current one if any
    /\ link # "closing"
    /\ doomed = {}
    /\ link' = "waiting"
    /\ heard' = "nothing"
    /\ \/ link # "ready" /\ UNCHANGED doomed
       \/ link # "none" /\ doomed' = owed
    /\ UNCHANGED <<owed, settled>>

Disconnect ==       \* the owner leaves the connection: no signal
    /\ link # "closing"
    /\ doomed = {}
    /\ link' = "none"
    /\ heard' = "nothing"
    /\ doomed' = owed
    /\ UNCHANGED <<owed, settled>>

Ready ==
    /\ link = "waiting"
    /\ doomed = {}
    /\ link' = "ready"
    /\ heard' = "ready"
    /\ UNCHANGED <<owed, doomed, settled>>

ConnectionFailed ==     \* what waits for a connection goes on waiting
    /\ link = "waiting"
    /\ doomed = {}
    /\ link' = "none"
    /\ heard' = "connectionFailed"
    /\ UNCHANGED <<owed, doomed, settled>>

Settle(c) ==
    /\ owed' = owed \ {c}
    /\ doomed' = doomed \ {c}
    /\ settled' = settled \cup {c}

Answer(c) ==        \* the callback gets what QEMU replied
    /\ link = "ready"
    /\ c \in owed
    /\ Settle(c)
    /\ UNCHANGED <<link, heard>>

Refuse(c) ==        \* the callback gets the error of the lost connection
    /\ c \in doomed
    /\ Settle(c)
    /\ UNCHANGED <<link, heard>>

Lose ==             \* QEMU closed a ready connection
    /\ link = "ready"
    /\ link' = "closing"
    /\ doomed' = owed
    /\ UNCHANGED <<heard, owed, settled>>

Disconnected ==
    /\ link = "closing"
    /\ doomed = {}
    /\ link' = "none"
    /\ heard' = "disconnected"
    /\ UNCHANGED <<owed, doomed, settled>>

Next ==
    \/ Connect \/ Disconnect \/ Ready \/ ConnectionFailed \/ Lose \/ Disconnected
    \/ \E c \in Commands : Execute(c) \/ Answer(c) \/ Refuse(c)

SafeSpec == Init /\ [][Next]_vars

(***************************************************************************)
(* A lost connection fails its commands and is announced without waiting   *)
(* for anybody: it happens within one call of the code.                    *)
(***************************************************************************)
Fairness ==
    /\ WF_vars(\E c \in Commands : Refuse(c))
    /\ WF_vars(Disconnected)

Spec == SafeSpec /\ Fairness
=============================================================================
