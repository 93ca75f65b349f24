------------------------------ MODULE Library -------------------------------
(***************************************************************************)
(* The library of VMs and the window that works on it: the VmStore and the *)
(* file watcher behind it, the list and the settings of MainWindow with    *)
(* the questions it asks, the start that waits for access to USB devices,  *)
(* the clone that is copied while the event loop runs, folders changed by  *)
(* hand, and the manager that ends and comes back while QEMUs run on.      *)
(*                                                                         *)
(* A VmRunner is taken as a phase; VmRunner.tla has it in detail.  Paused  *)
(* is Running here, and vm.args is a version of itself.                    *)
(***************************************************************************)
EXTENDS Naturals, FiniteSets

CONSTANTS
    Ids,          \* the names folders can have,
    Vms,          \* and those there at first
    NumDisks,     \* what a clone copies
    MaxByHand,    \* bound: changes of folders outside the manager
    MaxRestarts,  \* bound: ends of the manager
    Started,      \* bound: the VMs the user starts
    None

ASSUME LibraryAssumption ==
    /\ Vms \cup Started \subseteq Ids /\ IsFiniteSet(Ids) /\ None \notin Ids
    /\ {NumDisks, MaxByHand, MaxRestarts} \subseteq Nat /\ NumDisks > 0

VARIABLES
    folder,     \* what is on the disk: the version of vm.args, the disks
    qemu,       \* the VMs whose QEMU runs
    dirEvent,   \* the watcher has yet to tell of the library folder,
    fileEvents, \* and of the vm.args of these
    watched,    \* the vm.args it watches
    store,      \* VmStore::m_vms
    args,       \* Vm::m_args
    phase,      \* VmRunner::Private::phase and state, of the VMs in the store
    asked,      \* VmRunner::Private::stopRequested
    win,        \* the window: the VM selected (cur), the one in the settings
                \* (pane), whether they are modified (edit), m_leaving, and
                \* the state the buttons are for (buttons)
    dialog,     \* the question the user is asked, and about which VM
    box,        \* the message about a failure
    askingUsb,  \* MainWindow::m_askingUsb
    starting,   \* MainWindow::m_starting
    endedFrom,  \* MainWindow::m_endedFrom: the VMs it tells did run, or begin to
    clone,      \* VmCloner: from, to, and the copies left
    byHand, restarts,
    went,       \* those whose folder went while they ran,
    halves      \* and what a manager killed while it copied left of clones

disk == <<folder, dirEvent, fileEvents, watched>>
vms == <<store, args, phase, asked, qemu>>
window == <<win, dialog, box, askingUsb, starting, endedFrom>>
vars == <<disk, vms, window, clone, byHand, restarts, went, halves>>

(* The arguments made by the manager or come with a folder, and changed.   *)
New == "new"
Changed == "changed"
Full == {New, Changed}
Gone == [args |-> "gone", disks |-> 0]
Whole(v) == [args |-> v, disks |-> NumDisks]
NoDialog == [kind |-> "none", vm |-> None]
NoBox == [vm |-> None, title |-> "none", cause |-> "none"]

Present(f) == {id \in Ids : f[id].args # "gone"}

StateOf(p) == IF p \in {"Idle", "Attach"} THEN "Stopped" ELSE p
State(id) == StateOf(phase[id])
IsActive(id) == State(id) # "Stopped"

-----------------------------------------------------------------------------
(* The window                                                              *)

(* phases: those of the VMs, after the step.                               *)
ButtonsFor(id, phases) == IF id = None THEN "NoVm" ELSE StateOf(phases[id])

UpdateActions(w, phases) == [w EXCEPT !.buttons = ButtonsFor(w.cur, phases)]

SetVm(w, id) == IF id = w.pane THEN w ELSE [w EXCEPT !.pane = id, !.edit = FALSE]

ShowCurrent(w, phases) == UpdateActions(SetVm(w, w.cur), phases)

(* The changes not applied to the VM shown are asked about later.          *)
CurrentChanged(w, phases) ==
    IF w.pane # None /\ w.cur # w.pane /\ w.edit THEN [w EXCEPT !.leaving = TRUE]
    ELSE ShowCurrent(w, phases)

SelectIn(w, id, phases) ==
    IF id = w.cur THEN w ELSE CurrentChanged([w EXCEPT !.cur = id], phases)

RemoveItems(w, gone) ==
    IF w.pane \in gone THEN SetVm(w, None) ELSE w

(* The list without its items of gone and with those of new: a neighbour   *)
(* becomes the current one, and so does the only one.                      *)
Relisted(w, gone, new, phases) ==
    LET left  == store \ gone
        next  == CASE w.cur \in left -> {w.cur}
                   [] w.cur \notin left /\ left # {} -> left
                   [] OTHER -> IF new = {} THEN {None} ELSE new
    IN  IF gone = {} /\ new = {} THEN {w}
        ELSE {CurrentChanged([RemoveItems(w, gone) EXCEPT !.cur = id], phases) : id \in next}

(* Not the code: the buttons wait for the next selection.                  *)
StateChangedUnseen(id, phases, w) ==
    /\ phase' = phases
    /\ endedFrom' = IF StateOf(phases[id]) = "Stopped" /\ IsActive(id)
                    THEN endedFrom \cup {id} ELSE endedFrom
    /\ starting' = IF StateOf(phases[id]) \in {"Stopped", "Starting"} THEN starting
                   ELSE starting \ {id}
    /\ win' = w

(* stateChanged of a VM, with the window as w.                             *)
StateChanged(id, phases, w) ==
    LET state == StateOf(phases[id]) IN
    /\ phase' = phases
    /\ endedFrom' = IF state = "Stopped" /\ IsActive(id) THEN endedFrom \cup {id}
                    ELSE endedFrom
    /\ starting' = IF state \in {"Stopped", "Starting"} THEN starting ELSE starting \ {id}
    /\ win' = IF id = w.cur THEN UpdateActions(w, phases) ELSE w

(* How MainWindow::failed tells: from what it noted when the state changed.*)
Title(id, state, from, begun) ==
    CASE state # "Stopped" -> "QEMU Refused"
      [] state = "Stopped" /\ id \in begun -> "Cannot Start"
      [] state = "Stopped" /\ id \in from \ begun -> "Stopped"
      [] OTHER -> "Cannot Connect"

(* Not the code: failed first, then stateChanged.                          *)
FailFirst(id, begun, w, cause) ==
    LET phases == [phase EXCEPT ![id] = "Idle"]
    IN  /\ phase' = phases
        /\ endedFrom' = IF IsActive(id) THEN endedFrom \cup {id} ELSE endedFrom
        /\ box' = [vm |-> id, title |-> Title(id, "Stopped", endedFrom, begun),
                   cause |-> cause]
        /\ starting' = begun \ {id}
        /\ win' = IF id = w.cur THEN UpdateActions(w, phases) ELSE w

(* A run that is over: stateChanged first, then failed.                    *)
Fail(id, begun, w, cause) ==
    LET phases == [phase EXCEPT ![id] = "Idle"]
        from   == IF IsActive(id) THEN endedFrom \cup {id} ELSE endedFrom
    IN  /\ phase' = phases
        /\ endedFrom' = from
        /\ box' = [vm |-> id, title |-> Title(id, "Stopped", from, begun), cause |-> cause]
        /\ starting' = begun \ {id}
        /\ win' = IF id = w.cur THEN UpdateActions(w, phases) ELSE w

-----------------------------------------------------------------------------
(* VmStore                                                                 *)

(* VmStore::reload with the folders f: VMs without a folder go, unless     *)
(* they run; new ones are attached to the QEMU found running.              *)
(* Not of a VM that a question is about: the answer would use a Vm that is *)
(* gone.                                                                   *)
Reload(f, w) ==
    LET gone   == {id \in store \ Present(f) : ~IsActive(id)}
        new    == Present(f) \ store
        phases == [id \in Ids |->
                     IF id \in new /\ id \in qemu THEN "Attach"
                     ELSE IF id \in gone \cup new THEN "Idle" ELSE phase[id]]
    IN  /\ dialog.vm \notin gone
        /\ store' = (store \ gone) \cup new
        /\ args' = [id \in Ids |-> IF id \in new THEN f[id].args
                                   ELSE IF id \in gone THEN "empty" ELSE args[id]]
        /\ phase' = phases
        /\ asked' = asked \ (gone \cup new)
        /\ win' \in Relisted(w, gone, new, phases)
        /\ starting' = starting \ gone
        /\ endedFrom' = endedFrom \ gone
        /\ watched' = (watched \ gone) \cup new
        /\ went' = (went \ gone)
                      \cup {id \in store \ Present(f) : IsActive(id)}

(* VmStore::create and Vm::save of the arguments v: the file replaces the  *)
(* one create wrote, which ends its watch.                                 *)
CreatedIn(id, v) ==
    LET phases == [phase EXCEPT ![id] = IF id \in qemu THEN "Attach" ELSE "Idle"]
    IN  /\ store' = store \cup {id}
        /\ args' = [args EXCEPT ![id] = v]
        /\ phase' = phases
        /\ asked' = asked \ {id}
        /\ dirEvent' = TRUE
        /\ \E w \in Relisted(win, {}, {id}, phases) :
              win' = IF v = "bare" THEN w ELSE SelectIn(w, id, phases)
        /\ IF v = "bare"
           THEN /\ watched' = watched \cup {id}
                /\ UNCHANGED fileEvents
           ELSE /\ fileEvents' = fileEvents \cup {id}
                /\ UNCHANGED watched

(* Vm::save; nothing tells of a file no longer watched.                    *)
Saved(id, v) ==
    /\ folder' = [folder EXCEPT ![id].args = v]
    /\ args' = [args EXCEPT ![id] = v]
    /\ fileEvents' = IF id \in watched THEN fileEvents \cup {id} ELSE fileEvents
    /\ watched' = watched \ {id}
    /\ UNCHANGED dirEvent

(* A name for VmStore::create.                                             *)
Free(id) == folder[id] = Gone /\ id \notin store

Writable(id) == folder[id].args # "gone"

DirectoryChanged ==
    /\ dirEvent
    /\ dirEvent' = FALSE
    /\ Reload(folder, win)
    /\ UNCHANGED <<folder, qemu, fileEvents, dialog, box, askingUsb, clone, byHand,
                   restarts, halves>>

(* Not the code: the file is watched from the start, and once.             *)
FileChangedOnce(id) ==
    /\ id \in fileEvents
    /\ fileEvents' = fileEvents \ {id}
    /\ args' = IF id \in store
               THEN [args EXCEPT ![id] = IF id \in Present(folder) THEN folder[id].args
                                         ELSE "empty"]
               ELSE args
    /\ UNCHANGED <<folder, qemu, dirEvent, watched, store, phase, asked, window, clone,
                   byHand, restarts, went, halves>>

(* Saving replaces the file, which ends the watch: it is watched again.    *)
FileChanged(id) ==
    /\ id \in fileEvents
    /\ fileEvents' = fileEvents \ {id}
    /\ IF id \in store
       THEN LET there == id \in Present(folder)
            IN  /\ args' = [args EXCEPT ![id] = IF there THEN folder[id].args ELSE "empty"]
                /\ watched' = IF there THEN watched \cup {id} ELSE watched
       ELSE UNCHANGED <<args, watched>>
    /\ UNCHANGED <<folder, qemu, dirEvent, store, phase, asked, window, clone, byHand,
                   restarts, went, halves>>

(* VmStore::remove, of a VM that does not run.                             *)
Remove(id) ==
    LET phases == [phase EXCEPT ![id] = "Idle"]
    IN  /\ ~IsActive(id)
        /\ folder' = [folder EXCEPT ![id] = Gone]
        /\ dirEvent' = TRUE
        /\ fileEvents' = IF id \in watched THEN fileEvents \cup {id} ELSE fileEvents
        /\ watched' = watched \ {id}
        /\ store' = store \ {id}
        /\ args' = [args EXCEPT ![id] = "empty"]
        /\ phase' = phases
        /\ asked' = asked \ {id}
        /\ win' \in Relisted(win, {id}, {}, phases)
        /\ starting' = starting \ {id}
        /\ endedFrom' = endedFrom \ {id}
        /\ went' = went \ {id}

-----------------------------------------------------------------------------
(* VmRunner                                                                *)

runnerSame == <<disk, store, args, dialog, askingUsb, clone, byHand, restarts, went,
                halves>>

Connected(id) ==
    /\ phase[id] \in {"Starting", "Attach"} /\ id \in qemu
    /\ StateChanged(id, [phase EXCEPT ![id] = "Running"], win)
    /\ UNCHANGED <<runnerSame, qemu, asked, box>>

(* QEMU answers another manager, or is gone.                               *)
AttachFails(id) ==
    /\ phase[id] = "Attach"
    /\ IF id \in qemu THEN Fail(id, starting, win, "no answer")
       ELSE /\ phase' = [phase EXCEPT ![id] = "Idle"]
            /\ UNCHANGED <<endedFrom, box, starting, win>>
    /\ UNCHANGED <<runnerSame, qemu, asked>>

QemuEnds(id) ==
    /\ id \in qemu
    /\ qemu' = qemu \ {id}
    /\ UNCHANGED <<runnerSame, phase, asked, win, box, starting, endedFrom>>

QmpClosed(id) ==
    /\ phase[id] = "Running" /\ id \notin qemu
    /\ StateChanged(id, [phase EXCEPT ![id] = "Stopping"], win)
    /\ UNCHANGED <<runnerSame, qemu, asked, box>>

GuestShutsDown(id) ==
    /\ phase[id] = "Running" /\ id \in qemu
    /\ asked' = asked \cup {id}
    /\ StateChanged(id, [phase EXCEPT ![id] = "Stopping"], win)
    /\ UNCHANGED <<runnerSame, qemu, box>>

QemuRefuses(id) ==
    /\ phase[id] = "Running" /\ box = NoBox
    /\ box' = [vm |-> id, title |-> Title(id, "Running", endedFrom, starting),
               cause |-> "command"]
    /\ UNCHANGED <<runnerSame, qemu, phase, asked, win, starting, endedFrom>>

RunOver(id) ==
    /\ phase[id] \in {"Starting", "Stopping"} /\ id \notin qemu
    /\ IF id \in asked
       THEN /\ StateChanged(id, [phase EXCEPT ![id] = "Idle"], win)
            /\ UNCHANGED box
       ELSE Fail(id, starting, win, IF phase[id] = "Starting" THEN "never ran" ELSE "ran")
    /\ asked' = asked \ {id}      \* reset when the next run begins
    /\ UNCHANGED <<runnerSame, qemu>>

(* VmRunner::start as UsbAccess calls it back: not of a VM that runs or is *)
(* gone by then.                                                           *)
StartRun(id, w) ==
    LET begun == starting \cup {id} IN
    \/ /\ id \notin store \/ IsActive(id)
       /\ win' = w
       /\ UNCHANGED <<starting, phase, asked, qemu, endedFrom, box>>
    \/ /\ id \in store /\ phase[id] = "Attach"
       /\ starting' = begun /\ win' = w
       /\ UNCHANGED <<phase, asked, qemu, endedFrom, box>>
    \/ /\ id \in store /\ phase[id] = "Idle" /\ id \in qemu
       /\ starting' = begun /\ win' = w
       /\ phase' = [phase EXCEPT ![id] = "Attach"]
       /\ asked' = asked \ {id}
       /\ UNCHANGED <<qemu, endedFrom, box>>
    \/ /\ id \in store /\ phase[id] = "Idle" /\ id \notin qemu
       /\ Fail(id, begun, w, "refused")
       /\ asked' = asked \ {id}
       /\ UNCHANGED qemu
    \/ /\ id \in store /\ phase[id] = "Idle" /\ id \notin qemu
       /\ phase' = [phase EXCEPT ![id] = "Starting"]
       /\ starting' = begun
       /\ win' = IF id = w.cur THEN UpdateActions(w, phase') ELSE w
       /\ asked' = asked \ {id} /\ qemu' = qemu \cup {id}
       /\ UNCHANGED <<endedFrom, box>>

UsbAnswered(id) ==
    /\ id \in askingUsb
    /\ askingUsb' = askingUsb \ {id}
    /\ StartRun(id, win)
    /\ UNCHANGED <<disk, store, args, dialog, clone, byHand, restarts, went, halves>>

-----------------------------------------------------------------------------
(* What the user does.  A question or a message blocks the window, but not *)
(* what the event loop brings.                                             *)

(* Not the code: the dialogs do not block the window.                      *)
CanActAnytime == box = NoBox /\ ~win.leaving

CanAct == dialog = NoDialog /\ box = NoBox /\ ~win.leaving

(* The watcher tells that a folder went before the user acts on the VM.    *)
Ask(kind, id) ==
    /\ id \in Present(folder) \/ ~dirEvent
    /\ dialog' = [kind |-> kind, vm |-> id]

userSame == <<disk, store, args, clone, byHand, restarts, went, halves>>

Select(id) ==
    /\ CanAct /\ id \in store /\ id # win.cur
    /\ win' = SelectIn(win, id, phase)
    /\ UNCHANGED <<userSame, phase, asked, qemu, dialog, box, askingUsb, starting, endedFrom>>

Edit ==
    /\ CanAct /\ win.pane # None /\ ~win.edit
    /\ win' = [win EXCEPT !.edit = TRUE]
    /\ UNCHANGED <<userSame, phase, asked, qemu, dialog, box, askingUsb, starting, endedFrom>>

(* MainWindow::leaveVm, as soon as the event loop gets to it.              *)
LeaveVm ==
    /\ win.leaving
    /\ LET w == [win EXCEPT !.leaving = FALSE] IN
       IF w.pane # None /\ w.cur # w.pane /\ w.edit
       THEN win' = w /\ Ask("leave", w.pane)
       ELSE win' = ShowCurrent(w, phase) /\ UNCHANGED dialog
    /\ UNCHANGED <<userSame, phase, asked, qemu, box, askingUsb, starting, endedFrom>>

(* start(), once the changes are settled: no QEMU, or damaged firmware the *)
(* user does not start with; else the access to USB devices comes first.   *)
GoStart(id, w) ==
    \/ /\ win' = w
       /\ UNCHANGED <<askingUsb, starting, phase, asked, qemu, endedFrom, box>>
    \/ /\ id \notin askingUsb
       /\ askingUsb' = askingUsb \cup {id} /\ win' = w
       /\ UNCHANGED <<starting, phase, asked, qemu, endedFrom, box>>
    \/ /\ id \notin askingUsb
       /\ StartRun(id, w)
       /\ UNCHANGED askingUsb

(* Not the code: the VM starts with what was applied.                      *)
StartAtOnce(id, w) == GoStart(id, w) /\ UNCHANGED dialog

Start(id, w) ==
    IF id = w.pane /\ w.edit
    THEN /\ Ask("start", id) /\ win' = w
         /\ UNCHANGED <<askingUsb, starting, phase, asked, qemu, endedFrom>>
    ELSE /\ GoStart(id, w)
         /\ UNCHANGED dialog

StartClicked ==
    /\ CanAct /\ win.buttons = "Stopped" /\ win.cur \in Started
    /\ Start(win.cur, win)
    /\ win.edit /\ win.cur = win.pane => UNCHANGED box
    /\ UNCHANGED userSame

ForceOff ==
    /\ CanAct /\ win.buttons \notin {"Stopped", "NoVm"}
    /\ IsActive(win.cur)
    /\ asked' = asked \cup {win.cur}
    /\ StateChanged(win.cur, [phase EXCEPT ![win.cur] =
                                 IF @ = "Running" THEN "Stopping" ELSE @], win)
    /\ UNCHANGED <<userSame, qemu, dialog, box, askingUsb>>

CloneClicked ==
    /\ CanAct /\ win.buttons = "Stopped" /\ ~IsActive(win.cur)
    /\ Ask(IF win.cur = win.pane /\ win.edit THEN "clone" ELSE "cloning", win.cur)
    /\ UNCHANGED <<userSame, vms, win, box, askingUsb, starting, endedFrom>>

RemoveClicked ==
    /\ CanAct /\ win.buttons = "Stopped" /\ ~IsActive(win.cur)
    /\ Ask("remove", win.cur)
    /\ UNCHANGED <<userSame, vms, win, box, askingUsb, starting, endedFrom>>

ApplyClicked ==
    /\ CanAct /\ win.edit /\ Writable(win.pane)
    /\ Saved(win.pane, Changed)
    /\ win' = [win EXCEPT !.edit = FALSE]
    /\ UNCHANGED <<store, phase, asked, qemu, dialog, box, askingUsb, starting, endedFrom,
                   clone, byHand, restarts, went, halves>>

DiscardClicked ==
    /\ CanAct /\ win.edit
    /\ win' = [win EXCEPT !.edit = FALSE]
    /\ UNCHANGED <<userSame, phase, asked, qemu, dialog, box, askingUsb, starting, endedFrom>>

(* A message about a failure is closed, shows the log, or has the firmware *)
(* replaced and the VM started again.                                      *)
BoxClosed ==
    /\ box # NoBox /\ dialog = NoDialog /\ ~win.leaving
    /\ box' = NoBox
    /\ LET shown == SelectIn(win, box.vm, phase) IN
       \/ UNCHANGED <<win, dialog, askingUsb>>
       \/ /\ box.vm \in store
          /\ win' = shown
          /\ UNCHANGED <<dialog, askingUsb>>
       \/ /\ box.vm \in store /\ box.title = "Cannot Start" /\ ~IsActive(box.vm)
          /\ win' = shown
          /\ IF box.vm = shown.pane /\ shown.edit
             THEN Ask("start", box.vm) /\ UNCHANGED askingUsb
             ELSE askingUsb' = askingUsb \cup {box.vm} /\ UNCHANGED dialog
    /\ UNCHANGED <<userSame, phase, asked, qemu, starting, endedFrom>>

(* VmPane::confirmChanges: the changes applied, as v, or discarded.        *)
Settles(id, v) ==
    \/ v = "discard" /\ UNCHANGED <<disk, args>>
    \/ v # "discard" /\ Writable(id) /\ Saved(id, v)

AnswerYes(v) ==
    LET id == dialog.vm
        w  == [win EXCEPT !.edit = FALSE]
    IN  /\ dialog.kind \in {"leave", "start", "clone"}
        /\ Settles(id, v)
        /\ \/ /\ dialog.kind = "leave"
              /\ dialog' = NoDialog
              /\ win' = ShowCurrent(w, phase)
              /\ UNCHANGED <<askingUsb, starting, phase, asked, qemu, endedFrom, box>>
           \/ /\ dialog.kind = "start"
              /\ dialog' = NoDialog
              /\ GoStart(id, w)
           \/ /\ dialog.kind = "clone"
              /\ Ask("cloning", id)
              /\ win' = w
              /\ UNCHANGED <<askingUsb, starting, phase, asked, qemu, endedFrom, box>>
        /\ UNCHANGED <<store, clone, byHand, restarts, went, halves>>

(* Cancel, or the changes cannot be saved: back to the VM shown.           *)
AnswerNo ==
    /\ dialog.kind \in {"leave", "start", "clone", "remove"}
    /\ dialog' = NoDialog
    /\ win' = IF dialog.kind = "leave" THEN SelectIn(win, dialog.vm, phase) ELSE win
    /\ UNCHANGED <<userSame, phase, asked, qemu, box, askingUsb, starting, endedFrom>>

RemoveConfirmed ==
    /\ dialog.kind = "remove"
    /\ Remove(dialog.vm)
    /\ dialog' = NoDialog
    /\ UNCHANGED <<qemu, box, askingUsb, clone, byHand, restarts, halves>>

(* NewVmDialog and ImportDialog: the whole VM at once, or nothing is left. *)
NewVm(id) ==
    /\ CanAct /\ Free(id)
    /\ \/ /\ folder' = [folder EXCEPT ![id] = Whole(New)]
          /\ CreatedIn(id, New)
          /\ UNCHANGED <<starting, endedFrom, went>>
       \/ /\ Reload(folder, win)
          /\ dirEvent' = TRUE
          /\ UNCHANGED <<folder, fileEvents>>
    /\ UNCHANGED <<qemu, dialog, box, askingUsb, clone, byHand, restarts, halves>>

-----------------------------------------------------------------------------
(* VmCloner                                                                *)

NoClone == [from |-> None, to |-> None, args |-> "none", left |-> 0]

MayCopy(id) == ~IsActive(id)

(* What has disks is cloned, of whatever the runner shows as stopped.      *)
CloneAccepted(to) ==
    LET from == dialog.vm IN
    /\ dialog.kind = "cloning" /\ clone = NoClone
    /\ MayCopy(from)
    /\ Free(to) /\ args[from] \in Full
    /\ folder' = [folder EXCEPT ![to] = [args |-> "bare", disks |-> 0]]
    /\ CreatedIn(to, "bare")
    /\ clone' = [from |-> from, to |-> to, args |-> args[from], left |-> NumDisks]
    /\ UNCHANGED <<qemu, dialog, box, askingUsb, starting, endedFrom, byHand, restarts, went,
                   halves>>

CopyEnds ==
    /\ clone.left > 1 /\ folder[clone.from] # Gone
    /\ folder' = [folder EXCEPT ![clone.to].disks = @ + 1]
    /\ clone' = [clone EXCEPT !.left = @ - 1]
    /\ UNCHANGED <<dirEvent, fileEvents, watched, vms, window, byHand, restarts, went, halves>>

(* The arguments come last, and the dialog closes on the clone.            *)
CloneEnds ==
    /\ clone.left = 1 /\ folder[clone.from] # Gone
    /\ folder' = [folder EXCEPT ![clone.to] = [args |-> clone.args, disks |-> @.disks + 1]]
    /\ args' = [args EXCEPT ![clone.to] = clone.args]
    /\ fileEvents' = IF clone.to \in watched THEN fileEvents \cup {clone.to} ELSE fileEvents
    /\ watched' = watched \ {clone.to}
    /\ clone' = NoClone /\ dialog' = NoDialog
    /\ win' = SelectIn(win, clone.to, phase)
    /\ UNCHANGED <<dirEvent, qemu, store, phase, asked, box, askingUsb, starting, endedFrom,
                   byHand, restarts, went, halves>>

(* Not the code: what is half made stays.                                  *)
LeftHalf ==
    /\ UNCHANGED <<folder, fileEvents>>
    /\ dirEvent' = TRUE
    /\ clone' = NoClone
    /\ Reload(folder, win)

(* VmCloner::fail: what is half made goes.                                 *)
Undone ==
    LET f == [folder EXCEPT ![clone.to] = Gone]
    IN  /\ folder' = f
        /\ fileEvents' = fileEvents \cup {clone.to}
        /\ dirEvent' = TRUE
        /\ clone' = NoClone
        /\ Reload(f, win)

CloneFails ==
    /\ clone # NoClone
    /\ Undone
    /\ UNCHANGED <<qemu, dialog, box, askingUsb, byHand, restarts, halves>>

CloneCancelled ==
    /\ dialog.kind = "cloning"
    /\ dialog' = NoDialog
    /\ IF clone # NoClone THEN Undone
       ELSE UNCHANGED <<disk, clone, store, args, phase, asked, win, starting, endedFrom, went>>
    /\ UNCHANGED <<qemu, box, askingUsb, byHand, restarts, halves>>

-----------------------------------------------------------------------------
(* What happens outside the manager                                        *)

ByHand ==
    /\ byHand < MaxByHand /\ byHand' = byHand + 1
    /\ UNCHANGED <<vms, window, clone, restarts, went, halves>>

(* A folder comes with what is in it, and once the watcher has told that   *)
(* one of its name went.                                                   *)
DropIn(id) ==
    /\ folder[id] = Gone /\ ~dirEvent /\ id \notin fileEvents
    /\ folder' = [folder EXCEPT ![id] = Whole(New)]
    /\ dirEvent' = TRUE
    /\ UNCHANGED <<fileEvents, watched>>
    /\ ByHand

(* Not under a question that is about the VM, nor of a clone in the making.*)
TakeAway(id) ==
    /\ folder[id] # Gone /\ id \notin {dialog.vm, clone.to}
    /\ folder' = [folder EXCEPT ![id] = Gone]
    /\ dirEvent' = TRUE
    /\ fileEvents' = IF id \in watched THEN fileEvents \cup {id} ELSE fileEvents
    /\ watched' = watched \ {id}
    /\ ByHand

(* Most editors replace the file, some write into it.                      *)
EditByHand(id) ==
    /\ folder[id].args \in Full
    /\ \E v \in Full \ {folder[id].args} : folder' = [folder EXCEPT ![id].args = v]
    /\ fileEvents' = IF id \in watched THEN fileEvents \cup {id} ELSE fileEvents
    /\ watched' \in {watched, watched \ {id}}
    /\ UNCHANGED dirEvent
    /\ ByHand

(* A new manager, with the folders f: main() attaches it to what runs.     *)
Manager(f) ==
    LET there  == Present(f)
        phases == [id \in Ids |-> IF id \in there \cap qemu THEN "Attach" ELSE "Idle"]
    IN  /\ store' = there
        /\ args' = [id \in Ids |-> IF id \in there THEN f[id].args ELSE "empty"]
        /\ phase' = phases
        /\ asked' = {}
        /\ dirEvent' = FALSE /\ fileEvents' = {} /\ watched' = there
        /\ \E id \in IF there = {} THEN {None} ELSE there :
              win' = [cur |-> id, pane |-> id, edit |-> FALSE, leaving |-> FALSE,
                      buttons |-> ButtonsFor(id, phases)]
        /\ dialog' = NoDialog /\ box' = NoBox /\ askingUsb' = {}
        /\ starting' = {} /\ endedFrom' = {}
        /\ clone' = NoClone /\ went' = {}

(* The window is closed, the changes settled, or the manager is killed.    *)
Closed ==
    /\ restarts < MaxRestarts /\ restarts' = restarts + 1
    /\ CanAct
    /\ \/ UNCHANGED folder
       \/ /\ win.edit /\ Writable(win.pane)
          /\ folder' = [folder EXCEPT ![win.pane].args = Changed]
    /\ Manager(folder')
    /\ UNCHANGED <<qemu, byHand, halves>>

Killed ==
    /\ restarts < MaxRestarts /\ restarts' = restarts + 1
    /\ halves' = halves \cup ({clone.to} \ {None})
    /\ Manager(folder)
    /\ UNCHANGED <<folder, qemu, byHand>>

-----------------------------------------------------------------------------
Init ==
    /\ folder = [id \in Ids |-> IF id \in Vms THEN Whole(New) ELSE Gone]
    /\ qemu = {}
    /\ dirEvent = FALSE /\ fileEvents = {} /\ watched = Vms
    /\ store = Vms
    /\ args = [id \in Ids |-> IF id \in Vms THEN New ELSE "empty"]
    /\ phase = [id \in Ids |-> "Idle"]
    /\ asked = {}
    /\ \E id \in IF Vms = {} THEN {None} ELSE Vms :
          win = [cur |-> id, pane |-> id, edit |-> FALSE, leaving |-> FALSE,
                 buttons |-> ButtonsFor(id, phase)]
    /\ dialog = NoDialog /\ box = NoBox /\ askingUsb = {}
    /\ starting = {} /\ endedFrom = {}
    /\ clone = NoClone
    /\ byHand = 0 /\ restarts = 0 /\ went = {} /\ halves = {}

Runner(id) ==
    \/ Connected(id) \/ AttachFails(id) \/ QemuEnds(id) \/ QmpClosed(id)
    \/ GuestShutsDown(id) \/ QemuRefuses(id) \/ RunOver(id) \/ UsbAnswered(id)

User ==
    \/ Edit \/ LeaveVm \/ StartClicked \/ ForceOff \/ CloneClicked \/ RemoveClicked
    \/ DiscardClicked \/ BoxClosed \/ AnswerNo \/ RemoveConfirmed
    \/ CopyEnds \/ CloneEnds \/ CloneFails \/ CloneCancelled \/ Closed \/ Killed
    \/ ApplyClicked
    \/ \E v \in {Changed, "discard"} : AnswerYes(v)

Next ==
    \/ DirectoryChanged
    \/ User
    \/ \E id \in Ids :
         \/ FileChanged(id) \/ Runner(id)
         \/ Select(id) \/ NewVm(id) \/ CloneAccepted(id)
         \/ DropIn(id) \/ TakeAway(id) \/ EditByHand(id)

Spec == Init /\ [][Next]_vars

-----------------------------------------------------------------------------
(* VmStore::reload, the watcher: once it has told everything, the library  *)
(* has every folder with a vm.args in it, and else only VMs that ran when  *)
(* their folder went; and of each VM it has what its vm.args says, and     *)
(* watches it, although the watch of a file that is replaced ends and has  *)
(* to be set again each time.  The window never shows a VM that is gone.   *)
ShowsTheFolders ==
    /\ ~dirEvent => store = Present(folder) \cup went
    /\ \A id \in (store \cap Present(folder)) \ (fileEvents \cup went) :
           id \in watched /\ args[id] = folder[id].args
    /\ {win.cur, win.pane} \subseteq store \cup {None}

(* vmcloner.h: "the disks of a running one would be copied halfway through *)
(* its writes": while a clone is copied, the manager starts nothing of its *)
(* source, and its folder stays as it is but for changes by hand.  What    *)
(* VmCloner::start does not ask for is the exception: a start that already *)
(* waits for access to USB devices, and a QEMU the runner does not know.   *)
SourceLeftAlone ==
    [][clone # NoClone =>
         /\ clone.from \in askingUsb' => clone.from \in askingUsb
         /\ clone.from \in qemu' => clone.from \in qemu \cup askingUsb
         /\ folder'[clone.from] = folder[clone.from] \/ byHand' # byHand]_vars

(* VmCloner::fail, copyNext: arguments with disks are there only with all  *)
(* the disks, and a VM with neither is a clone being made, or what was     *)
(* left of one when the manager was killed.                                *)
WholeOrGone ==
    \A id \in Ids \ halves :
        /\ folder[id].args \in Full => folder[id].disks = NumDisks
        /\ folder[id].args = "bare" => id = clone.to

(* MainWindow::updateActions, called from the handlers: once the user may  *)
(* act, the buttons are those for the VM selected and for its state.       *)
ButtonsFit == ~win.leaving /\ dialog.kind # "leave" => win.buttons = ButtonsFor(win.cur, phase)

(* MainWindow::failed knows from the changes of state before it what the   *)
(* failure was, whichever of a start, a run and an attach it ended.        *)
TellsWhy ==
    CASE box.cause = "ran" -> box.title = "Stopped"
      [] box.cause \in {"refused", "never ran"} -> box.title = "Cannot Start"
      [] box.cause = "no answer" -> box.title \in {"Cannot Connect", "Cannot Start"}
      [] box.cause = "command" -> box.title = "QEMU Refused"
      [] OTHER -> box = NoBox

(* A start of a VM: from the access to USB devices it waits for, the note  *)
(* that it begins, or its QEMU, whichever there is first.                  *)
Begins(id) ==
    \/ id \in askingUsb' \ askingUsb
    \/ id \in (starting' \ starting) \ askingUsb
    \/ id \in qemu' \ (qemu \cup askingUsb)

(* MainWindow::leaveVm, start, confirmChanges: changes that are not applied*)
(* are asked about before the settings show another VM, and before the VM  *)
(* starts or is cloned, whatever happens to the list and to the VM's state *)
(* meanwhile.                                                              *)
NoLostEdits ==
    [][win.edit =>
         /\ win'.pane # win.pane =>
               \/ dialog.kind = "leave" \/ win.pane \notin store' \/ restarts' # restarts
         /\ Begins(win.pane) => dialog.kind = "start" /\ dialog.vm = win.pane
         /\ dialog'.kind = "cloning" /\ dialog'.vm = win.pane => dialog.kind # "none"]_vars
=============================================================================
