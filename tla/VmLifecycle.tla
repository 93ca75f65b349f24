----------------------------- MODULE VmLifecycle -----------------------------
(***************************************************************************)
(* What VmRunner promises to those that show and drive a VM (vmrunner.h):  *)
(* the states a VM goes through, and that a run never just ends: either    *)
(* its end was asked for, or the user is told.                             *)
(***************************************************************************)

VARIABLES
    manager,    \* whether the manager, and so the VmRunner, is there
    state,      \* VmRunner::state()
    asked,      \* the end of the run was asked for, by the user or the guest
    told        \* failed() was emitted since the run began

vars == <<manager, state, asked, told>>

Shown == {"Running", "Paused"}

Init ==
    /\ manager = TRUE
    /\ state = "Stopped"
    /\ asked = FALSE
    /\ told = FALSE

Begin ==                    \* start(), or attach() to a QEMU found
    /\ manager
    /\ state = "Stopped"
    /\ state' \in {"Stopped", "Starting"}
    /\ ~asked' /\ ~told'
    /\ UNCHANGED manager

Refuse ==                   \* start() that fails, attach() that gets no answer
    /\ manager
    /\ state = "Stopped"
    /\ told'
    /\ asked' \in {FALSE, asked}
    /\ UNCHANGED <<manager, state>>

Show ==                     \* QMP tells the state: Stopped if it attached
    /\ manager
    /\ state # "Stopping"
    /\ state' \in Shown
    /\ UNCHANGED <<manager, asked, told>>

AskToStop ==                \* forceOff(), or the guest shuts down
    /\ manager
    /\ asked'
    /\ state' \in {state, "Stopping"}
    /\ UNCHANGED <<manager, told>>

LoseQmp ==
    /\ manager
    /\ state' = "Stopping"
    /\ UNCHANGED <<manager, asked, told>>

End ==                      \* never of a VM that is shown to run
    /\ manager
    /\ state \in {"Starting", "Stopping"}
    /\ state' = "Stopped"
    /\ asked => asked'
    /\ told => told'
    /\ asked' \/ told'
    /\ UNCHANGED manager

Leave ==
    /\ manager
    /\ ~manager'
    /\ state' = "Stopped"
    /\ ~asked' /\ ~told'

Return ==
    /\ ~manager
    /\ manager'
    /\ state' = "Stopped"
    /\ asked' \in {FALSE, asked}
    /\ told' \in {FALSE, told}

Next ==
    \/ Begin \/ Refuse \/ Show \/ AskToStop \/ LoseQmp \/ End
    \/ Leave \/ Return

Spec == Init /\ [][Next]_vars
=============================================================================
