----------------------------- MODULE LibraryProofs -----------------------------
(***************************************************************************)
(* Proofs about Library, for every set of folders, of disks and of bounds: *)
(* the list shows the folders, the buttons fit the VM selected, a message  *)
(* tells what failed, no changes are lost unasked, and, as long as nothing *)
(* runs behind a VM shown as stopped, a clone is copied at rest and is     *)
(* whole or gone.                                                          *)
(*                                                                         *)
(* One inductive invariant carries them, LInv.  Its parts lean on one      *)
(* another: what the window shows (WinFits) tells which VM a question is   *)
(* about (DialogFits), that a question is open tells what cannot happen to *)
(* the clone (CloneFits), and from the clone follows which arguments are   *)
(* whole (WholeFits).                                                      *)
(***************************************************************************)
EXTENDS Library, TLAPS

Versions == {"gone", "bare", "empty"} \cup Full
Phases == {"Idle", "Attach", "Starting", "Running", "Stopping"}

Windows ==
    [cur : Ids \cup {None}, pane : Ids \cup {None}, edit : BOOLEAN, leaving : BOOLEAN,
     buttons : {"NoVm", "Stopped", "Starting", "Running", "Stopping"}]

Dialogs ==
    [kind : {"none", "leave", "start", "clone", "remove", "cloning"}, vm : Ids \cup {None}]

Boxes ==
    [vm : Ids \cup {None},
     title : {"none", "QEMU Refused", "Cannot Start", "Stopped", "Cannot Connect"},
     cause : {"none", "ran", "never ran", "refused", "no answer", "command"}]

Clones ==
    [from : Ids \cup {None}, to : Ids \cup {None},
     args : (Versions \ {"gone"}) \cup {"none"}, left : Nat]

DiskTyped ==
    /\ folder \in [Ids -> [args : Versions, disks : Nat]]
    /\ dirEvent \in BOOLEAN
    /\ fileEvents \subseteq Ids /\ watched \subseteq Ids
    /\ went \subseteq Ids /\ halves \subseteq Ids
    /\ byHand \in Nat /\ restarts \in Nat

VmsTyped ==
    /\ store \subseteq Ids /\ asked \subseteq Ids /\ qemu \subseteq Ids
    /\ args \in [Ids -> Versions \ {"gone"}]
    /\ phase \in [Ids -> Phases]

WindowTyped ==
    /\ win \in Windows /\ dialog \in Dialogs /\ box \in Boxes /\ clone \in Clones
    /\ askingUsb \subseteq Ids /\ starting \subseteq Ids /\ endedFrom \subseteq Ids

TypeOK == DiskTyped /\ VmsTyped /\ WindowTyped

(* What the watcher and the store know of the folders                       *)
FoldersFit ==
    /\ went \subseteq store
    /\ ~dirEvent => store = Present(folder) \cup went
    /\ \A id \in (store \cap Present(folder)) \ (fileEvents \cup went) :
           id \in watched /\ args[id] = folder[id].args

(* The VM that is selected, the one in the settings, and the buttons, with  *)
(* the VMs of S in their phases, and whether changes are asked about        *)
Fits(w, S, phases, asks) ==
    /\ {w.cur, w.pane} \subseteq S \cup {None}
    /\ w.edit => w.pane # None
    /\ w.cur = w.pane => w.buttons = ButtonsFor(w.cur, phases)
    /\ ~w.leaving /\ ~asks => w.cur = w.pane

WinFits == Fits(win, store, phase, dialog.kind = "leave")

(* What a question is about, with the VMs of S and the window w             *)
Asks(d, S, w) ==
    /\ d.kind = "none" <=> d.vm = None
    /\ d.vm \in S \cup {None}
    /\ d.kind = "leave" => d.vm = w.pane /\ w.edit
    /\ d.kind \in {"start", "clone", "remove", "cloning"} => ~w.leaving /\ d.vm = w.cur
    /\ d.kind = "cloning" => ~w.edit

DialogFits == Asks(dialog, store, win)

(* What MainWindow notes of the VMs of S, by the phase each is in           *)
Notes(S, phases, begun, from) ==
    /\ from \subseteq S
    /\ \A id \in Ids :
        /\ phases[id] # "Idle" => id \in S
        /\ phases[id] \in {"Running", "Stopping"} => id \notin begun
        /\ phases[id] = "Starting" => id \in begun
        /\ phases[id] = "Attach" => id \in begun \/ id \notin from

RunFits == Notes(store, phase, starting, endedFrom) /\ TellsWhy

(* The clone that is being made                                             *)
CloneFits ==
    clone = NoClone
    \/ /\ dialog.kind = "cloning"
       /\ clone.to \in store /\ clone.from \in Ids /\ clone.from # clone.to
       /\ clone.left > 0 /\ clone.args \notin {"none", "bare"}
       /\ folder[clone.to].args = "bare"
       /\ folder[clone.to].disks + clone.left = NumDisks

(* The VMs that are whole, and those of which only a part is there          *)
WholeFits ==
    \A id \in Ids \ halves :
        /\ folder[id].args \notin {"gone", "bare"} => folder[id].disks = NumDisks
        /\ folder[id].args = "bare" => id = clone.to

LInv ==
    /\ TypeOK /\ FoldersFit /\ WinFits /\ DialogFits /\ RunFits /\ CloneFits /\ WholeFits

(* Nothing begins in a step, but of VMs that wait for access to USB devices *)
NothingBegins ==
    /\ askingUsb' \subseteq askingUsb
    /\ starting' \subseteq starting \cup askingUsb
    /\ qemu' \subseteq qemu \cup askingUsb

(* What a step does to changes that are not applied, NoLostEdits            *)
KeepsEdits ==
    win.edit =>
         /\ win'.pane # win.pane =>
               \/ dialog.kind = "leave" \/ win.pane \notin store' \/ restarts' # restarts
         /\ dialog'.kind = "cloning" /\ dialog'.vm = win.pane => dialog.kind # "none"

-----------------------------------------------------------------------------
(* The window                                                               *)

PhaseMap == [Ids -> Phases]

(* The buttons are for one of the states.                                   *)
LEMMA ButtonsTyped ==
    ASSUME NEW phases \in PhaseMap, NEW id \in Ids \cup {None}
    PROVE  ButtonsFor(id, phases) \in {"NoVm", "Stopped", "Starting", "Running", "Stopping"}
<1> QED
  BY LibraryAssumption DEF ButtonsFor, StateOf, PhaseMap, Phases

(* UpdateActions changes the buttons alone, and to those of the VM selected. *)
LEMMA UpdateActionsFacts ==
    ASSUME NEW phases \in PhaseMap, NEW w \in Windows
    PROVE  LET v == UpdateActions(w, phases) IN
           /\ v \in Windows
           /\ v.cur = w.cur /\ v.pane = w.pane /\ v.edit = w.edit /\ v.leaving = w.leaving
           /\ v.buttons = ButtonsFor(w.cur, phases)
<1>1. ButtonsFor(w.cur, phases) \in {"NoVm", "Stopped", "Starting", "Running", "Stopping"}
  BY ButtonsTyped DEF Windows
<1> HIDE DEF ButtonsFor
<1> QED
  BY <1>1 DEF UpdateActions, Windows

(* ShowCurrent shows the VM selected; only another VM ends the changes.      *)
LEMMA ShowCurrentFacts ==
    ASSUME NEW phases \in PhaseMap, NEW w \in Windows
    PROVE  LET v == ShowCurrent(w, phases) IN
           /\ v \in Windows
           /\ v.cur = w.cur /\ v.pane = w.cur /\ v.leaving = w.leaving
           /\ v.edit = (w.edit /\ w.pane = w.cur)
           /\ v.buttons = ButtonsFor(w.cur, phases)
<1> DEFINE s == SetVm(w, w.cur)
<1>1. /\ s \in Windows /\ s.cur = w.cur /\ s.pane = w.cur /\ s.leaving = w.leaving
      /\ s.edit = (w.edit /\ w.pane = w.cur)
  <2>1. CASE w.cur = w.pane
    BY <2>1 DEF SetVm, Windows
  <2>2. CASE w.cur # w.pane
    BY <2>2 DEF SetVm, Windows
  <2> QED
    BY <2>1, <2>2
<1> HIDE DEF s
<1>2. ShowCurrent(w, phases) = UpdateActions(s, phases)
  BY DEF ShowCurrent, s
<1> QED
  BY <1>1, <1>2, UpdateActionsFacts

(* CurrentChanged leaves a window that fits, and keeps the changes.          *)
LEMMA CurrentChangedFacts ==
    ASSUME NEW phases \in PhaseMap, NEW w \in Windows, NEW S \in SUBSET Ids,
           {w.cur, w.pane} \subseteq S \cup {None}, w.edit => w.pane # None
    PROVE  LET v == CurrentChanged(w, phases) IN
           /\ v \in Windows /\ Fits(v, S, phases, FALSE)
           /\ v.cur = w.cur
           /\ w.edit => v.pane = w.pane /\ v.edit
           /\ v.edit => w.edit
           /\ w.leaving => v.leaving
           /\ v.leaving => w.leaving \/ v.pane # v.cur
<1>1. CASE w.pane # None /\ w.cur # w.pane /\ w.edit
  <2> DEFINE v == [w EXCEPT !.leaving = TRUE]
  <2>1. CurrentChanged(w, phases) = v
    BY <1>1 DEF CurrentChanged
  <2>2. /\ v \in Windows /\ v.leaving /\ v.cur = w.cur /\ v.pane = w.pane /\ v.edit = w.edit
    BY DEF Windows
  <2> HIDE DEF v
  <2> QED
    BY <1>1, <2>1, <2>2 DEF Fits
<1>2. CASE ~(w.pane # None /\ w.cur # w.pane /\ w.edit)
  <2> DEFINE v == ShowCurrent(w, phases)
  <2>1. CurrentChanged(w, phases) = v
    BY <1>2 DEF CurrentChanged
  <2>2. /\ v \in Windows
        /\ v.cur = w.cur /\ v.pane = w.cur /\ v.leaving = w.leaving
        /\ v.edit = (w.edit /\ w.pane = w.cur)
        /\ v.buttons = ButtonsFor(w.cur, phases)
    BY ShowCurrentFacts
  <2> HIDE DEF v
  <2>3. w.edit => w.pane = w.cur
    BY <1>2
  <2>4. w.edit \in BOOLEAN /\ v.edit \in BOOLEAN
    BY <2>2 DEF Windows
  <2>5. v.edit <=> w.edit
    BY <2>2, <2>3, <2>4
  <2>6. Fits(v, S, phases, FALSE)
    BY <2>2, <2>3, <2>5 DEF Fits
  <2> QED
    BY <2>1, <2>2, <2>3, <2>5, <2>6
<1> QED
  BY <1>1, <1>2

(* The same of SelectIn, of a window that fits.                              *)
LEMMA SelectInFacts ==
    ASSUME NEW phases \in PhaseMap, NEW w \in Windows, NEW S \in SUBSET Ids, NEW id \in S,
           Fits(w, S, phases, TRUE), ~w.leaving /\ w.cur = id => w.pane = id
    PROVE  LET v == SelectIn(w, id, phases) IN
           /\ v \in Windows /\ Fits(v, S, phases, FALSE)
           /\ v.cur = id
           /\ w.edit => v.pane = w.pane /\ v.edit
           /\ v.edit => w.edit
           /\ w.leaving => v.leaving
           /\ v.leaving => w.leaving \/ v.pane # v.cur
<1>1. CASE id = w.cur
  BY <1>1 DEF SelectIn, Fits
<1>2. CASE id # w.cur
  <2> DEFINE u == [w EXCEPT !.cur = id]
  <2>1. /\ u \in Windows /\ u.cur = id /\ u.pane = w.pane /\ u.edit = w.edit
        /\ u.leaving = w.leaving
    BY DEF Windows
  <2>2. SelectIn(w, id, phases) = CurrentChanged(u, phases)
    BY <1>2 DEF SelectIn
  <2> HIDE DEF u
  <2>3. {u.cur, u.pane} \subseteq S \cup {None} /\ (u.edit => u.pane # None)
    BY <2>1 DEF Fits
  <2> DEFINE v == CurrentChanged(u, phases)
  <2>4. /\ v \in Windows /\ Fits(v, S, phases, FALSE)
        /\ v.cur = u.cur
        /\ u.edit => v.pane = u.pane /\ v.edit
        /\ v.edit => u.edit
        /\ u.leaving => v.leaving
        /\ v.leaving => u.leaving \/ v.pane # v.cur
    BY <2>1, <2>3, CurrentChangedFacts
  <2> HIDE DEF v
  <2>5. SelectIn(w, id, phases) = v
    BY <2>2 DEF v
  <2> QED
    BY <2>1, <2>4, <2>5
<1> QED
  BY <1>1, <1>2

(* And of the list, when VMs go and others come, with the question d, which  *)
(* is about none of those that go.                                           *)
Relists(w, d, old, gone, new, phases) ==
    /\ phases \in PhaseMap /\ old \in PhaseMap /\ w \in Windows /\ d \in Dialogs
    /\ gone \subseteq store /\ new \subseteq Ids /\ store \subseteq Ids /\ new \cap store = {}
    /\ Fits(w, store, old, d.kind = "leave") /\ Asks(d, store, w) /\ d.vm \notin gone
    /\ \A id \in store \ gone : StateOf(phases[id]) = StateOf(old[id])

LEMMA RelistedFacts ==
    ASSUME NEW w, NEW d, NEW old, NEW gone, NEW new, NEW phases,
           Relists(w, d, old, gone, new, phases), NEW v \in Relisted(w, gone, new, phases)
    PROVE  /\ v \in Windows
           /\ Fits(v, (store \ gone) \cup new, phases, d.kind = "leave")
           /\ Asks(d, (store \ gone) \cup new, v)
           /\ w.edit => (v.pane = w.pane /\ v.edit) \/ w.pane \notin (store \ gone) \cup new
           /\ v.edit => w.edit
<1> USE DEF Relists
<1> DEFINE S == (store \ gone) \cup new
<1>0. /\ None \notin Ids /\ w.cur \in Ids \cup {None} /\ w.pane \in Ids \cup {None}
      /\ w.edit \in BOOLEAN /\ w.leaving \in BOOLEAN /\ S \in SUBSET Ids
      /\ None \notin store
  BY LibraryAssumption DEF Windows
<1>1. CASE gone = {} /\ new = {}
  <2>1. v = w /\ S = store
    BY <1>1 DEF Relisted
  <2>2. ButtonsFor(w.cur, phases) = ButtonsFor(w.cur, old)
    BY <1>0, <1>1 DEF Fits, ButtonsFor
  <2> HIDE DEF S
  <2>3. Fits(v, S, phases, d.kind = "leave") /\ Asks(d, S, v)
    BY <2>1, <2>2 DEF Fits
  <2> QED
    BY <2>1, <2>3 DEF S
<1>2. CASE ~(gone = {} /\ new = {})
  <2>1. PICK cur \in Ids \cup {None} :
          /\ v = CurrentChanged([RemoveItems(w, gone) EXCEPT !.cur = cur], phases)
          /\ cur \in S \cup {None}
          /\ w.cur \in store \ gone => cur = w.cur
    <3> DEFINE next == CASE w.cur \in store \ gone -> {w.cur}
                         [] w.cur \notin store \ gone /\ store \ gone # {} -> store \ gone
                         [] OTHER -> IF new = {} THEN {None} ELSE new
    <3>1. Relisted(w, gone, new, phases) =
            {CurrentChanged([RemoveItems(w, gone) EXCEPT !.cur = id], phases) : id \in next}
      BY <1>2 DEF Relisted
    <3>2. next \subseteq S \cup {None} /\ (w.cur \in store \ gone => next = {w.cur})
      OBVIOUS
    <3> HIDE DEF next
    <3> QED
      BY <1>0, <3>1, <3>2
  <2> DEFINE r == RemoveItems(w, gone)
  <2>2. /\ r \in Windows /\ r.cur = w.cur /\ r.leaving = w.leaving
        /\ w.pane \in gone => r.pane = None /\ ~r.edit
        /\ w.pane \notin gone => r = w
    BY <1>0 DEF RemoveItems, SetVm, Windows
  <2> HIDE DEF r
  <2> DEFINE u == [r EXCEPT !.cur = cur]
  <2>3. /\ u \in Windows /\ u.cur = cur /\ u.pane = r.pane /\ u.edit = r.edit
        /\ u.leaving = r.leaving
    BY <2>2 DEF Windows
  <2> HIDE DEF u
  <2>4. v = CurrentChanged(u, phases)
    BY <2>1 DEF u, r
  <2>5. {u.cur, u.pane} \subseteq S \cup {None} /\ (u.edit => u.pane # None)
    BY <2>1, <2>2, <2>3 DEF Fits
  <2> HIDE DEF S
  <2>6. /\ v \in Windows /\ Fits(v, S, phases, FALSE)
        /\ v.cur = u.cur
        /\ u.edit => v.pane = u.pane /\ v.edit
        /\ v.edit => u.edit
        /\ u.leaving => v.leaving
        /\ v.leaving => u.leaving \/ v.pane # v.cur
    <3> DEFINE x == CurrentChanged(u, phases)
    <3>1. /\ x \in Windows /\ Fits(x, S, phases, FALSE)
          /\ x.cur = u.cur
          /\ u.edit => x.pane = u.pane /\ x.edit
          /\ x.edit => u.edit
          /\ u.leaving => x.leaving
          /\ x.leaving => u.leaving \/ x.pane # x.cur
      BY <1>0, <2>3, <2>5, CurrentChangedFacts
    <3> QED
      BY <2>4, <3>1
  <2>7. Fits(v, S, phases, d.kind = "leave")
    BY <2>6 DEF Fits
  <2>8. w.edit => (v.pane = w.pane /\ v.edit) \/ w.pane \in gone
    BY <2>2, <2>3, <2>6
  <2>9. v.edit => w.edit
    BY <2>2, <2>3, <2>6
  <2>10. w.pane \in gone => w.pane \notin S
    BY DEF S
  <2>11. Asks(d, S, v)
    <3>1. d.vm \in S \cup {None} /\ (d.kind = "none" <=> d.vm = None)
      BY DEF Asks, S
    <3>2. ASSUME d.kind = "leave" PROVE d.vm = v.pane /\ v.edit
      BY <3>2, <2>2, <2>3, <2>6 DEF Asks
    <3>3. ASSUME d.kind \in {"start", "clone", "remove", "cloning"}
          PROVE  ~v.leaving /\ d.vm = v.cur
      <4>1. d.kind # "leave" /\ d.kind # "none" /\ d.vm = w.cur /\ ~w.leaving
        BY <3>3 DEF Asks
      <4>2. w.cur = w.pane /\ w.cur \in store \ gone
        BY <4>1 DEF Asks, Fits
      <4>3. cur = w.cur /\ r = w
        BY <2>1, <2>2, <4>2
      <4>4. u.pane = u.cur /\ ~u.leaving
        BY <2>3, <4>1, <4>2, <4>3
      <4>5. v.pane = v.cur
        BY <2>4, <2>3, <4>4, ShowCurrentFacts DEF CurrentChanged
      <4> QED
        BY <2>6, <2>3, <4>1, <4>3, <4>4, <4>5
    <3>4. d.kind = "cloning" => ~v.edit
      BY <2>9 DEF Asks
    <3> QED
      BY <3>1, <3>2, <3>3, <3>4 DEF Asks
  <2> QED
    BY <2>6, <2>7, <2>8, <2>9, <2>10, <2>11 DEF S
<1> QED
  BY <1>1, <1>2

-----------------------------------------------------------------------------
(* A VM that goes from one phase to another                                 *)

(* The window v is w, with the buttons for the new phases.                  *)
Follows(w, v, old, phases) ==
    /\ v \in Windows
    /\ v.cur = w.cur /\ v.pane = w.pane /\ v.edit = w.edit /\ v.leaving = w.leaving
    /\ \/ v.buttons = ButtonsFor(w.cur, phases)
       \/ v.buttons = w.buttons /\ ButtonsFor(w.cur, old) = ButtonsFor(w.cur, phases)

(* Such a window fits, and the questions are about the same VMs.            *)
LEMMA FollowsFits ==
    ASSUME NEW w, NEW v, NEW old, NEW phases, NEW S, NEW asks, NEW d,
           Follows(w, v, old, phases), Fits(w, S, old, asks), Asks(d, S, w)
    PROVE  Fits(v, S, phases, asks) /\ Asks(d, S, v)
<1>1. Fits(v, S, phases, asks)
  <2>1. v.cur = w.cur /\ v.pane = w.pane /\ v.edit = w.edit /\ v.leaving = w.leaving
    BY DEF Follows
  <2>2. w.cur = w.pane => v.buttons = ButtonsFor(w.cur, phases)
    BY DEF Follows, Fits
  <2> QED
    BY <2>1, <2>2 DEF Fits
<1>2. Asks(d, S, v)
  BY DEF Follows, Asks
<1> QED
  BY <1>1, <1>2

(* The buttons are updated when the VM selected changes its phase.          *)
LEMMA UpdatedFollows ==
    ASSUME NEW old \in PhaseMap, NEW id \in Ids, NEW p \in Phases, NEW w \in Windows
    PROVE  LET phases == [old EXCEPT ![id] = p] IN
           /\ phases \in PhaseMap
           /\ Follows(w, IF id = w.cur THEN UpdateActions(w, phases) ELSE w, old, phases)
<1> DEFINE phases == [old EXCEPT ![id] = p]
<1>1. phases \in PhaseMap
  BY DEF PhaseMap
<1>2. CASE id = w.cur
  <2>1. LET v == UpdateActions(w, phases) IN
        /\ v \in Windows
        /\ v.cur = w.cur /\ v.pane = w.pane /\ v.edit = w.edit /\ v.leaving = w.leaving
        /\ v.buttons = ButtonsFor(w.cur, phases)
    BY <1>1, UpdateActionsFacts
  <2> HIDE DEF phases
  <2> QED
    BY <1>1, <1>2, <2>1 DEF Follows, phases
<1>3. CASE id # w.cur
  <2>1. ButtonsFor(w.cur, old) = ButtonsFor(w.cur, phases)
    BY <1>3 DEF ButtonsFor, PhaseMap, Windows
  <2> HIDE DEF phases
  <2> QED
    BY <1>1, <1>3, <2>1 DEF Follows, phases
<1> QED
  BY <1>1, <1>2, <1>3

(* A phase that shows the same state needs no update.                       *)
LEMMA SameStateFollows ==
    ASSUME NEW old \in PhaseMap, NEW id \in Ids, NEW p \in Phases, NEW w \in Windows,
           StateOf(old[id]) = StateOf(p)
    PROVE  LET phases == [old EXCEPT ![id] = p] IN
           phases \in PhaseMap /\ Follows(w, w, old, phases)
<1> DEFINE phases == [old EXCEPT ![id] = p]
<1>1. phases \in PhaseMap
  BY DEF PhaseMap
<1>2. \A i \in Ids : StateOf(phases[i]) = StateOf(old[i])
  BY DEF PhaseMap
<1> HIDE DEF phases
<1>3. ButtonsFor(w.cur, old) = ButtonsFor(w.cur, phases)
  BY <1>2, LibraryAssumption DEF ButtonsFor, Windows
<1>4. Follows(w, w, old, phases)
  BY <1>3 DEF Follows
<1> QED
  BY <1>1, <1>4 DEF phases

(* What a change of state and a failure do to the window and to the notes.  *)
LEMMA StateChangedFacts ==
    ASSUME TypeOK, NEW id \in Ids, NEW p \in Phases, NEW w \in Windows,
           StateChanged(id, [phase EXCEPT ![id] = p], w)
    PROVE  /\ phase' = [phase EXCEPT ![id] = p] /\ phase' \in PhaseMap /\ phase'[id] = p
           /\ Follows(w, win', phase, phase')
           /\ endedFrom' = IF StateOf(p) = "Stopped" /\ IsActive(id) THEN endedFrom \cup {id}
                           ELSE endedFrom
           /\ starting' = IF StateOf(p) \in {"Stopped", "Starting"} THEN starting
                          ELSE starting \ {id}
<1> DEFINE phases == [phase EXCEPT ![id] = p]
<1>1. phase \in PhaseMap /\ phases[id] = p
  BY DEF TypeOK, VmsTyped, PhaseMap
<1>2. /\ phases \in PhaseMap
      /\ Follows(w, IF id = w.cur THEN UpdateActions(w, phases) ELSE w, phase, phases)
  BY <1>1, UpdatedFollows
<1> HIDE DEF phases
<1>3. StateChanged(id, phases, w)
  BY DEF phases
<1>4. phase' = phases /\ win' = IF id = w.cur THEN UpdateActions(w, phases) ELSE w
  BY <1>3 DEF StateChanged
<1>5. phase' = phases /\ Follows(w, win', phase, phase')
  BY <1>2, <1>4
<1>6. /\ endedFrom' = IF StateOf(p) = "Stopped" /\ IsActive(id) THEN endedFrom \cup {id}
                      ELSE endedFrom
      /\ starting' = IF StateOf(p) \in {"Stopped", "Starting"} THEN starting
                     ELSE starting \ {id}
  BY <1>1, <1>3 DEF StateChanged
<1> QED
  BY <1>1, <1>2, <1>5, <1>6 DEF phases

LEMMA FailFacts ==
    ASSUME TypeOK, NEW id \in Ids, NEW begun \in SUBSET Ids, NEW w \in Windows, NEW cause,
           Fail(id, begun, w, cause)
    PROVE  LET from == IF IsActive(id) THEN endedFrom \cup {id} ELSE endedFrom IN
           /\ phase' = [phase EXCEPT ![id] = "Idle"] /\ phase' \in PhaseMap
           /\ phase'[id] = "Idle"
           /\ Follows(w, win', phase, phase')
           /\ endedFrom' = from /\ starting' = begun \ {id}
           /\ box' = [vm |-> id, title |-> Title(id, "Stopped", from, begun), cause |-> cause]
<1> DEFINE phases == [phase EXCEPT ![id] = "Idle"]
<1>1. phase \in PhaseMap /\ phases[id] = "Idle" /\ "Idle" \in Phases
  BY DEF TypeOK, VmsTyped, PhaseMap, Phases
<1>2. /\ phases \in PhaseMap
      /\ Follows(w, IF id = w.cur THEN UpdateActions(w, phases) ELSE w, phase, phases)
  BY <1>1, UpdatedFollows
<1>3. phase' = phases /\ win' = IF id = w.cur THEN UpdateActions(w, phases) ELSE w
  BY DEF Fail
<1> HIDE DEF phases
<1>4. phase' = phases /\ Follows(w, win', phase, phase')
  BY <1>2, <1>3
<1> QED
  BY <1>1, <1>2, <1>4 DEF phases, Fail

(* The titles of the failures, each in the set of them.                     *)
LEMMA TitleTyped ==
    ASSUME NEW id, NEW state, NEW from, NEW begun
    PROVE  Title(id, state, from, begun)
               \in {"QEMU Refused", "Cannot Start", "Stopped", "Cannot Connect"}
<1>1. CASE state # "Stopped"
  BY <1>1 DEF Title
<1>2. CASE state = "Stopped" /\ id \in begun
  BY <1>2 DEF Title
<1>3. CASE state = "Stopped" /\ id \notin begun /\ id \in from
  BY <1>3 DEF Title
<1>4. CASE state = "Stopped" /\ id \notin begun /\ id \notin from
  BY <1>4 DEF Title
<1> QED
  BY <1>1, <1>2, <1>3, <1>4

Causes == {"none", "ran", "never ran", "refused", "no answer", "command"}

LEMMA BoxTyped ==
    ASSUME NEW id \in Ids, NEW state, NEW from, NEW begun, NEW cause \in Causes
    PROVE  [vm |-> id, title |-> Title(id, state, from, begun), cause |-> cause] \in Boxes
<1>1. Title(id, state, from, begun)
          \in {"QEMU Refused", "Cannot Start", "Stopped", "Cannot Connect"}
  BY TitleTyped
<1> HIDE DEF Title
<1> QED
  BY <1>1 DEF Boxes, Causes

-----------------------------------------------------------------------------
(* What a VmRunner, or a command to it, does                                *)

(* What MainWindow notes of the other VMs stays.                            *)
LEMMA NotesKept ==
    ASSUME NEW S, NEW phases \in PhaseMap, NEW begun, NEW from, NEW id \in Ids,
           NEW p \in Phases, NEW begun2, NEW from2,
           Notes(S, phases, begun, from),
           from2 \in {from, from \cup {id}}, id \in from2 => id \in S,
           begun2 \in {begun, begun \cup {id}, begun \ {id}},
           p # "Idle" => id \in S,
           p \in {"Running", "Stopping"} => id \notin begun2,
           p = "Starting" => id \in begun2,
           p = "Attach" => id \in begun2 \/ id \notin from2
    PROVE  Notes(S, [phases EXCEPT ![id] = p], begun2, from2)
<1> DEFINE new == [phases EXCEPT ![id] = p]
<1>1. /\ new[id] = p
      /\ \A x \in Ids \ {id} : /\ new[x] = phases[x]
                               /\ x \in begun2 <=> x \in begun
                               /\ x \in from2 <=> x \in from
  BY DEF PhaseMap
<1>2. from2 \subseteq S
  BY DEF Notes
<1> HIDE DEF new
<1>3. ASSUME NEW x \in Ids
      PROVE  /\ new[x] # "Idle" => x \in S
             /\ new[x] \in {"Running", "Stopping"} => x \notin begun2
             /\ new[x] = "Starting" => x \in begun2
             /\ new[x] = "Attach" => x \in begun2 \/ x \notin from2
  <2>1. CASE x = id
    BY <1>1, <2>1
  <2>2. CASE x # id
    BY <1>1, <2>2 DEF Notes
  <2> QED
    BY <2>1, <2>2
<1>4. Notes(S, new, begun2, from2)
  BY <1>2, <1>3 DEF Notes
<1> QED
  BY <1>4 DEF new

(* The types and the notes after a step, and what a step about the run of   *)
(* one VM leaves of the others                                              *)
RunSound ==
    /\ phase' \in PhaseMap /\ starting' \subseteq Ids /\ endedFrom' \subseteq Ids
    /\ asked' \subseteq Ids /\ qemu' \subseteq Ids /\ box' \in Boxes
    /\ RunFits'

RunKept(id) ==
    /\ RunSound
    /\ qemu' \subseteq qemu \cup {id}
    /\ \A x \in Ids \ {id} : phase'[x] = phase[x]

LEMMA NothingRuns ==
    ASSUME TypeOK, RunFits, NEW id \in Ids,
           UNCHANGED <<store, phase, starting, endedFrom, asked, qemu, box>>
    PROVE  RunKept(id)
<1>1. phase \in PhaseMap
  BY DEF TypeOK, VmsTyped, PhaseMap
<1>2. RunFits'
  BY DEF RunFits, TellsWhy
<1> QED
  BY <1>1, <1>2 DEF RunKept, RunSound, TypeOK, VmsTyped, WindowTyped

LEMMA WindowSame ==
    ASSUME NEW w \in Windows, UNCHANGED phase
    PROVE  Follows(w, w, phase, phase')
<1> QED
  BY DEF Follows

(* UsbAccess has answered: VmRunner::start, whatever has become of the VM.   *)
LEMMA StartRunFacts ==
    ASSUME TypeOK, RunFits, NEW id \in Ids, NEW w \in Windows, UNCHANGED store,
           StartRun(id, w)
    PROVE  RunKept(id) /\ Follows(w, win', phase, phase')
<1>0. /\ phase \in PhaseMap /\ starting \subseteq Ids /\ endedFrom \subseteq Ids
      /\ asked \subseteq Ids /\ qemu \subseteq Ids /\ box \in Boxes
      /\ Notes(store, phase, starting, endedFrom) /\ TellsWhy
      /\ \A p \in Phases : \A x \in Ids \ {id} : [phase EXCEPT ![id] = p][x] = phase[x]
  BY DEF TypeOK, VmsTyped, WindowTyped, PhaseMap, RunFits
<1>1. CASE /\ id \notin store \/ IsActive(id)
           /\ win' = w
           /\ UNCHANGED <<starting, phase, asked, qemu, endedFrom, box>>
  BY <1>1, NothingRuns, WindowSame
<1>2. CASE /\ id \in store /\ phase[id] = "Attach"
           /\ starting' = starting \cup {id} /\ win' = w
           /\ UNCHANGED <<phase, asked, qemu, endedFrom, box>>
  <2>1. Notes(store, [phase EXCEPT ![id] = "Attach"], starting \cup {id}, endedFrom)
    <3>1. "Attach" \in Phases /\ (id \in endedFrom => id \in store)
      BY <1>2 DEF Phases
    <3> QED
      BY <1>0, <1>2, <3>1, NotesKept
  <2>2. [phase EXCEPT ![id] = "Attach"] = phase
    BY <1>0, <1>2 DEF PhaseMap
  <2>3. RunFits'
    BY <1>0, <1>2, <2>1, <2>2 DEF RunFits, TellsWhy
  <2> QED
    BY <1>0, <1>2, <2>3, WindowSame DEF RunKept, RunSound
<1>3. CASE /\ id \in store /\ phase[id] = "Idle" /\ id \in qemu
           /\ starting' = starting \cup {id} /\ win' = w
           /\ phase' = [phase EXCEPT ![id] = "Attach"]
           /\ asked' = asked \ {id}
           /\ UNCHANGED <<qemu, endedFrom, box>>
  <2>1. "Attach" \in Phases /\ StateOf(phase[id]) = StateOf("Attach")
    BY <1>3 DEF Phases, StateOf
  <2>2. phase' \in PhaseMap /\ Follows(w, win', phase, phase')
    BY <1>0, <1>3, <2>1, SameStateFollows
  <2>3. Notes(store, phase', starting', endedFrom)
    BY <1>0, <1>3, <2>1, NotesKept
  <2>4. RunFits'
    BY <1>0, <1>3, <2>3 DEF RunFits, TellsWhy
  <2> QED
    BY <1>0, <1>3, <2>1, <2>2, <2>4 DEF RunKept, RunSound
<1>4. CASE /\ id \in store /\ phase[id] = "Idle" /\ id \notin qemu
           /\ Fail(id, starting \cup {id}, w, "refused")
           /\ asked' = asked \ {id}
           /\ UNCHANGED qemu
  <2>1. ~IsActive(id) /\ "Idle" \in Phases
    BY <1>4 DEF IsActive, State, StateOf, Phases
  <2>2. /\ phase' = [phase EXCEPT ![id] = "Idle"] /\ phase' \in PhaseMap
        /\ Follows(w, win', phase, phase')
        /\ endedFrom' = endedFrom /\ starting' = (starting \cup {id}) \ {id}
        /\ box' = [vm |-> id,
                   title |-> Title(id, "Stopped", endedFrom, starting \cup {id}),
                   cause |-> "refused"]
    <3> DEFINE begun == starting \cup {id}
    <3>1. begun \in SUBSET Ids /\ Fail(id, begun, w, "refused")
      BY <1>0, <1>4
    <3> HIDE DEF begun
    <3>2. LET from == IF IsActive(id) THEN endedFrom \cup {id} ELSE endedFrom IN
          /\ phase' = [phase EXCEPT ![id] = "Idle"] /\ phase' \in PhaseMap
          /\ Follows(w, win', phase, phase')
          /\ endedFrom' = from /\ starting' = begun \ {id}
          /\ box' = [vm |-> id, title |-> Title(id, "Stopped", from, begun),
                     cause |-> "refused"]
      BY <3>1, FailFacts
    <3> QED
      BY <2>1, <3>2 DEF begun
  <2>3. Notes(store, phase', starting', endedFrom')
    <3>1. starting' = starting \ {id} /\ (id \in endedFrom => id \in store)
      BY <1>4, <2>2
    <3>2. Notes(store, [phase EXCEPT ![id] = "Idle"], starting \ {id}, endedFrom)
      BY <1>0, <2>1, <3>1, NotesKept
    <3> QED
      BY <2>2, <3>1, <3>2
  <2>4. Title(id, "Stopped", endedFrom, starting \cup {id}) = "Cannot Start"
    BY DEF Title
  <2>5. TellsWhy'
    BY <2>2, <2>4 DEF TellsWhy
  <2>6. box' \in Boxes
    BY <2>2, BoxTyped DEF Causes
  <2>7. RunFits'
    BY <1>4, <2>3, <2>5 DEF RunFits
  <2>8. \A x \in Ids \ {id} : phase'[x] = phase[x]
    BY <1>0, <2>1, <2>2
  <2>9. starting' \subseteq Ids /\ asked' \subseteq Ids
    BY <1>0, <1>4, <2>2
  <2> QED
    BY <1>0, <1>4, <2>2, <2>6, <2>7, <2>8, <2>9 DEF RunKept, RunSound
<1>5. CASE /\ id \in store /\ phase[id] = "Idle" /\ id \notin qemu
           /\ phase' = [phase EXCEPT ![id] = "Starting"]
           /\ starting' = starting \cup {id}
           /\ win' = IF id = w.cur THEN UpdateActions(w, phase') ELSE w
           /\ asked' = asked \ {id} /\ qemu' = qemu \cup {id}
           /\ UNCHANGED <<endedFrom, box>>
  <2>1. "Starting" \in Phases
    BY DEF Phases
  <2>2. phase' \in PhaseMap /\ Follows(w, win', phase, phase')
    BY <1>0, <1>5, <2>1, UpdatedFollows
  <2>3. Notes(store, phase', starting', endedFrom)
    BY <1>0, <1>5, <2>1, NotesKept
  <2>4. RunFits'
    BY <1>0, <1>5, <2>3 DEF RunFits, TellsWhy
  <2> QED
    BY <1>0, <1>5, <2>1, <2>2, <2>4 DEF RunKept, RunSound
<1> QED
  BY <1>1, <1>2, <1>3, <1>4, <1>5 DEF StartRun

(* A change of state that the runner tells of, no failure.                  *)
LEMMA StateChangedKeeps ==
    ASSUME TypeOK, RunFits, NEW id \in store, NEW p \in Phases, UNCHANGED <<store, qemu, box>>,
           asked' \subseteq Ids, p # "Attach", p = "Starting" => id \in starting,
           StateChanged(id, [phase EXCEPT ![id] = p], win)
    PROVE  RunKept(id) /\ Follows(win, win', phase, phase')
<1>0. /\ phase \in PhaseMap /\ starting \subseteq Ids /\ endedFrom \subseteq Ids
      /\ qemu \subseteq Ids /\ box \in Boxes /\ id \in Ids /\ win \in Windows
      /\ Notes(store, phase, starting, endedFrom) /\ TellsWhy
      /\ \A x \in Ids \ {id} : [phase EXCEPT ![id] = p][x] = phase[x]
  BY DEF TypeOK, VmsTyped, WindowTyped, PhaseMap, RunFits
<1>1. /\ phase' = [phase EXCEPT ![id] = p] /\ phase' \in PhaseMap
      /\ Follows(win, win', phase, phase')
      /\ endedFrom' = IF StateOf(p) = "Stopped" /\ IsActive(id) THEN endedFrom \cup {id}
                      ELSE endedFrom
      /\ starting' = IF StateOf(p) \in {"Stopped", "Starting"} THEN starting
                     ELSE starting \ {id}
  BY <1>0, StateChangedFacts
<1>2. p \in {"Running", "Stopping"} => starting' = starting \ {id}
  BY <1>1 DEF StateOf
<1>3. p = "Starting" => starting' = starting
  BY <1>1 DEF StateOf
<1>4. endedFrom' \in {endedFrom, endedFrom \cup {id}} /\ starting' \in {starting, starting \ {id}}
  BY <1>1
<1>5. Notes(store, [phase EXCEPT ![id] = p], starting', endedFrom')
  BY <1>0, <1>2, <1>3, <1>4, NotesKept
<1>6. RunFits'
  BY <1>0, <1>1, <1>5 DEF RunFits, TellsWhy
<1> QED
  BY <1>0, <1>1, <1>4, <1>6 DEF RunKept, RunSound

(* A run or an attach that is over, with a failure.                         *)
LEMMA FailKeeps ==
    ASSUME TypeOK, RunFits, NEW id \in store, NEW cause \in Causes, UNCHANGED <<store, qemu>>,
           asked' \subseteq Ids,
           \/ cause = "no answer" /\ phase[id] = "Attach"
           \/ cause = "never ran" /\ phase[id] = "Starting"
           \/ cause = "ran" /\ phase[id] = "Stopping",
           Fail(id, starting, win, cause)
    PROVE  RunKept(id) /\ Follows(win, win', phase, phase')
<1>0. /\ phase \in PhaseMap /\ starting \in SUBSET Ids /\ endedFrom \subseteq Ids
      /\ qemu \subseteq Ids /\ id \in Ids /\ win \in Windows /\ "Idle" \in Phases
      /\ Notes(store, phase, starting, endedFrom) /\ TellsWhy
      /\ \A x \in Ids \ {id} : [phase EXCEPT ![id] = "Idle"][x] = phase[x]
  BY DEF TypeOK, VmsTyped, WindowTyped, PhaseMap, RunFits, Phases
<1> DEFINE from == IF IsActive(id) THEN endedFrom \cup {id} ELSE endedFrom
<1>1. /\ phase' = [phase EXCEPT ![id] = "Idle"] /\ phase' \in PhaseMap
      /\ Follows(win, win', phase, phase')
      /\ endedFrom' = from /\ starting' = starting \ {id}
      /\ box' = [vm |-> id, title |-> Title(id, "Stopped", from, starting), cause |-> cause]
  BY <1>0, FailFacts
<1>2. from \in {endedFrom, endedFrom \cup {id}}
  OBVIOUS
<1>3. Notes(store, phase', starting', endedFrom')
  <2>1. Notes(store, [phase EXCEPT ![id] = "Idle"], starting', endedFrom')
    BY <1>0, <1>1, <1>2, NotesKept
  <2> QED
    BY <1>1, <2>1
<1>4. TellsWhy'
  <2>1. CASE cause = "no answer"
    <3>1. from = endedFrom /\ (id \in starting \/ id \notin endedFrom)
      BY <1>0, <2>1 DEF IsActive, State, StateOf, Notes
    <3>2. Title(id, "Stopped", from, starting) \in {"Cannot Connect", "Cannot Start"}
      <4>1. CASE id \in starting
        BY <4>1 DEF Title
      <4>2. CASE id \notin starting
        <5>1. id \notin from
          BY <3>1, <4>2
        <5> QED
          BY <4>2, <5>1 DEF Title
      <4> QED
        BY <4>1, <4>2
    <3> HIDE DEF from, Title
    <3> QED
      BY <1>1, <2>1, <3>2 DEF TellsWhy
  <2>2. CASE cause = "never ran"
    <3>1. id \in starting
      BY <1>0, <2>2 DEF Notes
    <3>2. Title(id, "Stopped", from, starting) = "Cannot Start"
      BY <3>1 DEF Title
    <3> HIDE DEF from, Title
    <3> QED
      BY <1>1, <2>2, <3>2 DEF TellsWhy
  <2>3. CASE cause = "ran"
    <3>1. id \notin starting /\ id \in from
      BY <1>0, <2>3 DEF IsActive, State, StateOf, Notes
    <3>2. Title(id, "Stopped", from, starting) = "Stopped"
      BY <3>1 DEF Title
    <3> HIDE DEF from, Title
    <3> QED
      BY <1>1, <2>3, <3>2 DEF TellsWhy
  <2> QED
    BY <2>1, <2>2, <2>3
<1>5. box' \in Boxes
  BY <1>0, <1>1, BoxTyped
<1>6. RunFits'
  BY <1>0, <1>3, <1>4 DEF RunFits
<1>7. starting' \subseteq Ids /\ endedFrom' \subseteq Ids
  BY <1>0, <1>1, <1>2
<1> HIDE DEF from
<1> QED
  BY <1>0, <1>1, <1>5, <1>6, <1>7 DEF RunKept, RunSound

(* What a VmRunner does stays between it, its QEMU and the window.          *)
LEMMA RunnerFacts ==
    ASSUME LInv, NEW id \in Ids, Runner(id)
    PROVE  /\ UNCHANGED <<folder, dirEvent, fileEvents, watched, store, args, dialog, clone,
                          byHand, restarts, went, halves>>
           /\ RunSound /\ Follows(win, win', phase, phase')
           /\ askingUsb' \subseteq askingUsb
<1> DEFINE Same == UNCHANGED <<folder, dirEvent, fileEvents, watched, store, args, dialog,
                               clone, byHand, restarts, went, halves>>
           Facts == /\ Same /\ RunSound /\ Follows(win, win', phase, phase')
                    /\ askingUsb' \subseteq askingUsb
<1>0. /\ TypeOK /\ RunFits /\ phase \in PhaseMap /\ win \in Windows
      /\ asked \subseteq Ids /\ qemu \subseteq Ids /\ askingUsb \subseteq Ids
      /\ \A p \in Phases : [phase EXCEPT ![id] = p][id] = p
  BY DEF LInv, TypeOK, VmsTyped, WindowTyped, PhaseMap
<1>1. phase[id] # "Idle" => id \in store
  BY <1>0 DEF RunFits, Notes
<1>2. CASE Connected(id)
  <2>1. Same /\ UNCHANGED <<qemu, asked, box, askingUsb>> /\ id \in qemu /\ id \in store
    BY <1>1, <1>2 DEF Connected, runnerSame, disk
  <2>2. StateChanged(id, [phase EXCEPT ![id] = "Running"], win) /\ "Running" \in Phases
    BY <1>2 DEF Connected, Phases
  <2>3. RunKept(id) /\ Follows(win, win', phase, phase')
    BY <1>0, <2>1, <2>2, StateChangedKeeps
  <2> QED
    BY <2>1, <2>3 DEF RunKept
<1>3. CASE AttachFails(id) /\ id \in qemu
  <2>1. Same /\ UNCHANGED <<qemu, asked, askingUsb>> /\ id \in qemu /\ id \in store
    BY <1>1, <1>3 DEF AttachFails, runnerSame, disk
  <2>2. Fail(id, starting, win, "no answer") /\ phase[id] = "Attach"
    BY <1>3 DEF AttachFails
  <2>3. RunKept(id) /\ Follows(win, win', phase, phase')
    <3>1. asked' \subseteq Ids /\ "no answer" \in Causes
      BY <1>0, <2>1 DEF Causes
    <3> QED
      BY <1>0, <2>1, <2>2, <3>1, FailKeeps
  <2> QED
    BY <2>1, <2>3 DEF RunKept
<1>4. CASE AttachFails(id) /\ id \notin qemu
  <2>1. /\ Same /\ UNCHANGED <<qemu, asked, askingUsb, endedFrom, box, starting, win>>
        /\ phase[id] = "Attach" /\ phase' = [phase EXCEPT ![id] = "Idle"]
    BY <1>4 DEF AttachFails, runnerSame, disk
  <2>2. "Idle" \in Phases /\ StateOf(phase[id]) = StateOf("Idle")
    BY <2>1 DEF Phases, StateOf
  <2>3. phase' \in PhaseMap /\ Follows(win, win', phase, phase')
    BY <1>0, <2>1, <2>2, SameStateFollows
  <2>4. Notes(store, phase', starting, endedFrom)
    BY <1>0, <1>1, <2>1, <2>2, NotesKept DEF RunFits
  <2>5. RunFits'
    BY <1>0, <2>1, <2>4 DEF RunFits, TellsWhy
  <2>6. RunKept(id)
    <3>1. \A x \in Ids \ {id} : phase'[x] = phase[x]
      BY <1>0, <2>1
    <3> QED
      BY <2>1, <2>3, <2>5, <3>1 DEF RunKept, RunSound, LInv, TypeOK, VmsTyped, WindowTyped
  <2> QED
    BY <2>1, <2>3, <2>6 DEF RunKept
<1>5. CASE QemuEnds(id)
  <2>1. /\ Same /\ UNCHANGED <<phase, asked, win, box, starting, endedFrom, askingUsb>>
        /\ qemu' = qemu \ {id} /\ id \in qemu
    BY <1>5 DEF QemuEnds, runnerSame, disk
  <2>2. Follows(win, win', phase, phase')
    BY <1>0, <2>1, WindowSame
  <2>3. RunFits'
    BY <1>0, <2>1 DEF RunFits, TellsWhy
  <2>4. RunKept(id)
    BY <1>0, <2>1, <2>3 DEF RunKept, RunSound, LInv, TypeOK, VmsTyped, WindowTyped
  <2> QED
    BY <2>1, <2>2, <2>4 DEF RunKept
<1>6. CASE QmpClosed(id)
  <2>1. /\ Same /\ UNCHANGED <<qemu, asked, box, askingUsb>>
        /\ phase[id] = "Running" /\ id \in store /\ IsActive(id)
    BY <1>1, <1>6 DEF QmpClosed, runnerSame, disk, IsActive, State, StateOf
  <2>2. StateChanged(id, [phase EXCEPT ![id] = "Stopping"], win) /\ "Stopping" \in Phases
    BY <1>6 DEF QmpClosed, Phases
  <2>3. RunKept(id) /\ Follows(win, win', phase, phase')
    BY <1>0, <2>1, <2>2, StateChangedKeeps
  <2> QED
    BY <2>1, <2>3 DEF RunKept
<1>7. CASE GuestShutsDown(id)
  <2>1. /\ Same /\ UNCHANGED <<qemu, box, askingUsb>> /\ asked' = asked \cup {id}
        /\ phase[id] = "Running" /\ id \in store /\ IsActive(id)
    BY <1>1, <1>7 DEF GuestShutsDown, runnerSame, disk, IsActive, State, StateOf
  <2>2. StateChanged(id, [phase EXCEPT ![id] = "Stopping"], win) /\ "Stopping" \in Phases
    BY <1>7 DEF GuestShutsDown, Phases
  <2>3. RunKept(id) /\ Follows(win, win', phase, phase')
    <3>1. asked' \subseteq Ids
      BY <1>0, <2>1
    <3> QED
      BY <1>0, <2>1, <2>2, <3>1, StateChangedKeeps
  <2> QED
    BY <2>1, <2>3 DEF RunKept
<1>8. CASE QemuRefuses(id)
  <2>1. /\ Same /\ UNCHANGED <<qemu, phase, asked, win, starting, endedFrom, askingUsb>>
        /\ phase[id] = "Running" /\ IsActive(id)
        /\ box' = [vm |-> id, title |-> Title(id, "Running", endedFrom, starting),
                   cause |-> "command"]
    BY <1>8 DEF QemuRefuses, runnerSame, disk, IsActive, State, StateOf
  <2>2. Follows(win, win', phase, phase')
    BY <1>0, <2>1, WindowSame
  <2>3. Title(id, "Running", endedFrom, starting) = "QEMU Refused"
    BY DEF Title
  <2>4. box' \in Boxes /\ TellsWhy'
    <3>1. box' \in Boxes
      BY <2>1, BoxTyped DEF Causes
    <3>2. TellsWhy'
      BY <2>1, <2>3 DEF TellsWhy
    <3> QED
      BY <3>1, <3>2
  <2>5. RunFits'
    BY <1>0, <2>1, <2>4 DEF RunFits
  <2>6. RunKept(id)
    BY <1>0, <2>1, <2>4, <2>5 DEF RunKept, RunSound, LInv, TypeOK, VmsTyped, WindowTyped
  <2> QED
    BY <2>1, <2>2, <2>6 DEF RunKept
<1>9. CASE RunOver(id)
  <2>1. /\ Same /\ UNCHANGED <<qemu, askingUsb>> /\ asked' = asked \ {id}
        /\ phase[id] \in {"Starting", "Stopping"} /\ id \in store /\ IsActive(id)
    BY <1>1, <1>9 DEF RunOver, runnerSame, disk, IsActive, State, StateOf
  <2>2. asked' \subseteq Ids
    BY <1>0, <2>1
  <2>3. CASE id \in asked
    <3>1. /\ StateChanged(id, [phase EXCEPT ![id] = "Idle"], win) /\ "Idle" \in Phases
          /\ UNCHANGED box
      BY <1>9, <2>3 DEF RunOver, Phases
    <3>2. RunKept(id) /\ Follows(win, win', phase, phase')
      BY <1>0, <2>1, <2>2, <3>1, StateChangedKeeps
    <3> QED
      BY <2>1, <3>2 DEF RunKept
  <2>4. CASE id \notin asked
    <3> DEFINE cause == IF phase[id] = "Starting" THEN "never ran" ELSE "ran"
    <3>1. /\ Fail(id, starting, win, cause)
          /\ cause \in Causes
          /\ \/ cause = "never ran" /\ phase[id] = "Starting"
             \/ cause = "ran" /\ phase[id] = "Stopping"
      BY <1>9, <2>1, <2>4 DEF RunOver, Causes
    <3> HIDE DEF cause
    <3>2. RunKept(id) /\ Follows(win, win', phase, phase')
      BY <1>0, <2>1, <2>2, <3>1, FailKeeps
    <3> QED
      BY <2>1, <3>2 DEF RunKept
  <2> QED
    BY <2>3, <2>4
<1>10. CASE UsbAnswered(id)
  <2>1. /\ Same /\ askingUsb' = askingUsb \ {id} /\ id \in askingUsb
        /\ StartRun(id, win)
    BY <1>10 DEF UsbAnswered, disk
  <2>2. RunKept(id) /\ Follows(win, win', phase, phase')
    BY <1>0, <2>1, StartRunFacts
  <2> QED
    BY <2>1, <2>2 DEF RunKept
<1> QED
  BY <1>2, <1>3, <1>4, <1>5, <1>6, <1>7, <1>8, <1>9, <1>10 DEF Runner

-----------------------------------------------------------------------------
(* What the user does in the window                                         *)

Windowed ==
    /\ win' \in Windows /\ dialog' \in Dialogs
    /\ WinFits' /\ DialogFits' /\ KeepsEdits

LEMMA FollowsWindowed ==
    ASSUME NEW w \in Windows, NEW d \in Dialogs,
           Fits(w, store, phase, d.kind = "leave"), Asks(d, store, w),
           Follows(w, win', phase, phase'), UNCHANGED store, dialog' = d,
           win.edit => w.pane = win.pane \/ dialog.kind = "leave",
           win.edit /\ d.kind = "cloning" /\ d.vm = win.pane => dialog.kind # "none"
    PROVE  Windowed
<1>1. Fits(win', store, phase', d.kind = "leave") /\ Asks(d, store, win')
  BY FollowsFits
<1>2. WinFits' /\ DialogFits'
  BY <1>1 DEF WinFits, DialogFits
<1>3. win' \in Windows /\ win'.pane = w.pane
  BY DEF Follows
<1>4. KeepsEdits
  BY <1>3 DEF KeepsEdits
<1> QED
  BY <1>2, <1>3, <1>4 DEF Windowed

LEMMA NoQuestion ==
    ASSUME NEW S \in SUBSET Ids, NEW w
    PROVE  Asks(NoDialog, S, w) /\ NoDialog \in Dialogs /\ NoDialog.kind = "none"
<1> QED
  BY DEF Asks, NoDialog, Dialogs

(* What holds once nothing blocks the window                                *)
LEMMA MayAct ==
    ASSUME LInv, CanAct
    PROVE  /\ dialog = NoDialog /\ dialog.kind = "none" /\ dialog.vm = None /\ ~win.leaving
           /\ win.cur = win.pane /\ win.buttons = ButtonsFor(win.cur, phase)
           /\ clone = NoClone
           /\ win.buttons # "NoVm" => win.cur \in store
           /\ win.edit => win.pane \in store
           /\ Fits(win, store, phase, FALSE) /\ Asks(NoDialog, store, win)
<1>1. dialog = NoDialog /\ dialog.kind = "none" /\ dialog.vm = None /\ ~win.leaving
  BY DEF CanAct, NoDialog
<1>2. Fits(win, store, phase, FALSE) /\ Asks(NoDialog, store, win)
  BY <1>1 DEF LInv, WinFits, DialogFits, Fits
<1>3. win.cur = win.pane /\ win.buttons = ButtonsFor(win.cur, phase)
  BY <1>1, <1>2 DEF Fits
<1>4. clone = NoClone
  BY <1>1 DEF LInv, CloneFits
<1>5. win.buttons # "NoVm" => win.cur \in store
  BY <1>2, <1>3 DEF Fits, ButtonsFor
<1>6. win.edit => win.pane \in store
  BY <1>2 DEF Fits
<1> QED
  BY <1>1, <1>2, <1>3, <1>4, <1>5, <1>6

(* A question other than cloning is open, or the window is about to ask.    *)
LEMMA NoCloneElse ==
    ASSUME LInv, win.leaving \/ dialog.kind # "cloning"
    PROVE  clone = NoClone /\ dialog.kind # "cloning"
<1> QED
  BY DEF LInv, CloneFits, DialogFits, Asks

(* What follows of every step of the user: the VMs stay, and no clone is    *)
(* under way                                                                *)
UserKept ==
    /\ UNCHANGED <<store, clone, byHand, restarts, went, halves>> /\ clone = NoClone
    /\ \/ UNCHANGED <<folder, dirEvent, fileEvents, watched, args>>
       \/ \E id \in Ids : Writable(id) /\ Saved(id, Changed)
    /\ RunSound /\ Windowed /\ askingUsb' \subseteq Ids

LEMMA NothingRan ==
    ASSUME LInv, UNCHANGED <<store, phase, starting, endedFrom, asked, qemu>>, box' \in {box, NoBox}
    PROVE  RunSound
<1>1. phase \in PhaseMap /\ NoBox \in Boxes
  BY DEF LInv, TypeOK, VmsTyped, PhaseMap, NoBox, Boxes
<1>2. TellsWhy'
  <2>1. CASE box' = box
    BY <2>1 DEF LInv, RunFits, TellsWhy
  <2>2. CASE box' = NoBox
    <3>1. box'.cause = "none"
      BY <2>2 DEF NoBox
    <3> QED
      BY <2>2, <3>1 DEF TellsWhy, NoBox
  <2> QED
    BY <2>1, <2>2
<1>3. RunFits'
  BY <1>2 DEF LInv, RunFits
<1> QED
  BY <1>1, <1>3 DEF RunSound, LInv, TypeOK, VmsTyped, WindowTyped

LEMMA SelectKeeps ==
    ASSUME LInv, NEW id \in Ids, Select(id)
    PROVE  UserKept
<1>0. CanAct /\ id \in store /\ UNCHANGED <<userSame, phase, asked, qemu, dialog, box, askingUsb,
                                            starting, endedFrom>>
  BY DEF Select
<1>1. /\ store \in SUBSET Ids /\ phase \in PhaseMap /\ win \in Windows /\ askingUsb \subseteq Ids
  BY DEF LInv, TypeOK, VmsTyped, WindowTyped, PhaseMap
<1> DEFINE v == SelectIn(win, id, phase)
<1>2. v \in Windows /\ Fits(v, store, phase, FALSE) /\ (win.edit => v.pane = win.pane)
  <2>1. Fits(win, store, phase, TRUE) /\ (~win.leaving /\ win.cur = id => win.pane = id)
    BY <1>0, MayAct DEF Fits
  <2> QED
    BY <1>0, <1>1, <2>1, SelectInFacts
<1>3. win' = v
  BY DEF Select
<1> HIDE DEF v
<1>4. Windowed
  <2>1. Follows(v, win', phase, phase')
    BY <1>0, <1>2, <1>3, WindowSame
  <2>2. dialog' = NoDialog /\ dialog.kind = "none"
    BY <1>0, MayAct
  <2> QED
    BY <1>0, <1>1, <1>2, <2>1, <2>2, NoQuestion, FollowsWindowed DEF Fits, userSame
<1>5. clone = NoClone
  BY <1>0, MayAct
<1>6. RunSound
  BY <1>0, NothingRan DEF userSame
<1> QED
  BY <1>0, <1>1, <1>4, <1>5, <1>6 DEF UserKept, userSame, disk

LEMMA EditKeeps ==
    ASSUME LInv, Edit \/ DiscardClicked
    PROVE  UserKept
<1>0. /\ CanAct /\ UNCHANGED <<userSame, phase, asked, qemu, dialog, box, askingUsb, starting,
                               endedFrom>>
      /\ \E e \in BOOLEAN : win' = [win EXCEPT !.edit = e] /\ (e => win.pane # None)
  BY DEF Edit, DiscardClicked
<1>1. /\ store \in SUBSET Ids /\ phase \in PhaseMap /\ win \in Windows /\ askingUsb \subseteq Ids
  BY DEF LInv, TypeOK, VmsTyped, WindowTyped, PhaseMap
<1>2. /\ win' \in Windows /\ win'.cur = win.cur /\ win'.pane = win.pane
      /\ win'.leaving = win.leaving /\ win'.buttons = win.buttons
      /\ win'.edit => win'.pane # None
  BY <1>0, <1>1 DEF Windows
<1>3. dialog' = NoDialog /\ dialog = NoDialog /\ dialog.kind = "none" /\ clone = NoClone
      /\ Fits(win, store, phase, FALSE)
  BY <1>0, MayAct
<1>4. Windowed
  <2>1. WinFits'
    BY <1>0, <1>2, <1>3 DEF WinFits, Fits, userSame
  <2>2. DialogFits' /\ dialog' \in Dialogs
    BY <1>0, <1>1, <1>3, NoQuestion DEF DialogFits, userSame
  <2>3. KeepsEdits
    BY <1>2, <1>3, NoQuestion DEF KeepsEdits
  <2> QED
    BY <1>2, <2>1, <2>2, <2>3 DEF Windowed
<1>5. RunSound
  BY <1>0, NothingRan DEF userSame
<1> QED
  BY <1>0, <1>1, <1>3, <1>4, <1>5 DEF UserKept, userSame, disk

LEMMA LeaveVmKeeps ==
    ASSUME LInv, LeaveVm
    PROVE  UserKept
<1>0. /\ win.leaving
      /\ UNCHANGED <<userSame, phase, asked, qemu, box, askingUsb, starting, endedFrom>>
  BY DEF LeaveVm
<1>1. /\ store \in SUBSET Ids /\ phase \in PhaseMap /\ win \in Windows /\ askingUsb \subseteq Ids
      /\ None \notin Ids /\ dialog \in Dialogs
  BY LibraryAssumption DEF LInv, TypeOK, VmsTyped, WindowTyped, PhaseMap
<1>2. clone = NoClone /\ dialog.kind \notin {"start", "clone", "remove", "cloning"}
  BY <1>0, NoCloneElse DEF LInv, DialogFits, Asks
<1> DEFINE w == [win EXCEPT !.leaving = FALSE]
<1>3. /\ w \in Windows /\ w.cur = win.cur /\ w.pane = win.pane /\ w.edit = win.edit
      /\ w.buttons = win.buttons /\ ~w.leaving
  BY <1>1 DEF Windows
<1>4. /\ {w.cur, w.pane} \subseteq store \cup {None} /\ (w.edit => w.pane # None)
      /\ w.cur = w.pane => w.buttons = ButtonsFor(w.cur, phase)
  BY <1>3 DEF LInv, WinFits, Fits
<1>5. IF w.pane # None /\ w.cur # w.pane /\ w.edit
      THEN win' = w /\ Ask("leave", w.pane)
      ELSE win' = ShowCurrent(w, phase) /\ UNCHANGED dialog
  BY DEF LeaveVm
<1> HIDE DEF w
<1>6. CASE w.pane # None /\ w.cur # w.pane /\ w.edit
  <2>1. win' = w /\ dialog' = [kind |-> "leave", vm |-> w.pane]
    BY <1>5, <1>6 DEF Ask
  <2> DEFINE d == [kind |-> "leave", vm |-> w.pane]
  <2>2. d \in Dialogs /\ d.kind = "leave" /\ d.vm = w.pane
    BY <1>3 DEF Dialogs, Windows
  <2> HIDE DEF d
  <2>3. Fits(w, store, phase, d.kind = "leave") /\ Asks(d, store, w)
    BY <1>4, <1>6, <2>2 DEF Fits, Asks
  <2>4. Follows(w, win', phase, phase')
    BY <1>0, <1>3, <2>1, WindowSame
  <2>5. Windowed
    BY <1>0, <1>3, <2>1, <2>2, <2>3, <2>4, FollowsWindowed DEF userSame, d
  <2>6. RunSound
    BY <1>0, NothingRan DEF userSame
  <2> QED
    BY <1>0, <1>1, <1>2, <2>5, <2>6 DEF UserKept, userSame, disk
<1>7. CASE ~(w.pane # None /\ w.cur # w.pane /\ w.edit)
  <2> DEFINE v == ShowCurrent(w, phase)
  <2>1. win' = v /\ UNCHANGED dialog
    BY <1>5, <1>7
  <2>2. /\ v \in Windows /\ v.cur = w.cur /\ v.pane = w.cur /\ v.leaving = w.leaving
        /\ v.edit = (w.edit /\ w.pane = w.cur)
        /\ v.buttons = ButtonsFor(w.cur, phase)
    BY <1>1, <1>3, ShowCurrentFacts
  <2> HIDE DEF v
  <2>3. w.edit => w.cur = w.pane
    BY <1>4, <1>7
  <2>4. Fits(v, store, phase, dialog.kind = "leave")
    BY <1>4, <2>2, <2>3 DEF Fits
  <2>5. Asks(dialog, store, v)
    <3>1. dialog.kind = "leave" => dialog.vm = w.pane /\ w.edit
      BY <1>3 DEF LInv, DialogFits, Asks
    <3> QED
      BY <1>2, <2>2, <2>3, <3>1 DEF LInv, DialogFits, Asks
  <2>6. Follows(v, win', phase, phase')
    BY <1>0, <2>1, <2>2, WindowSame
  <2>7. win.edit => v.pane = win.pane
    BY <1>3, <2>2, <2>3
  <2>8. Windowed
    BY <1>0, <1>1, <1>2, <2>1, <2>2, <2>4, <2>5, <2>6, <2>7, FollowsWindowed DEF userSame
  <2>9. RunSound
    BY <1>0, NothingRan DEF userSame
  <2> QED
    BY <1>0, <1>1, <1>2, <2>8, <2>9 DEF UserKept, userSame, disk
<1> QED
  BY <1>6, <1>7

(* start() once the changes are settled: what becomes of the VM.            *)
LEMMA GoStartFacts ==
    ASSUME LInv, NEW id \in Ids, NEW w \in Windows, UNCHANGED store, GoStart(id, w)
    PROVE  RunSound /\ Follows(w, win', phase, phase') /\ askingUsb' \subseteq Ids
<1>0. TypeOK /\ RunFits /\ askingUsb \subseteq Ids
  BY DEF LInv, TypeOK, WindowTyped
<1>1. CASE /\ win' = w
           /\ UNCHANGED <<askingUsb, starting, phase, asked, qemu, endedFrom, box>>
  BY <1>0, <1>1, NothingRan, WindowSame
<1>2. CASE /\ askingUsb' = askingUsb \cup {id} /\ win' = w
           /\ UNCHANGED <<starting, phase, asked, qemu, endedFrom, box>>
  BY <1>0, <1>2, NothingRan, WindowSame
<1>3. CASE StartRun(id, w) /\ UNCHANGED askingUsb
  BY <1>0, <1>3, StartRunFacts DEF RunKept
<1> QED
  BY <1>1, <1>2, <1>3 DEF GoStart

(* A question about the VM selected, with the window as w.                  *)
LEMMA Questions ==
    ASSUME LInv, NEW kind \in {"start", "clone", "remove", "cloning"}, NEW w \in Windows,
           w.cur \in store, ~w.leaving, kind = "cloning" => ~w.edit,
           Fits(w, store, phase, FALSE), UNCHANGED <<store, phase>>,
           win' = w, dialog' = [kind |-> kind, vm |-> w.cur],
           win.edit => w.pane = win.pane,
           win.edit /\ kind = "cloning" /\ w.cur = win.pane => dialog.kind # "none"
    PROVE  Windowed
<1> DEFINE d == [kind |-> kind, vm |-> w.cur]
<1>1. d \in Dialogs /\ d.kind = kind /\ d.vm = w.cur
  BY DEF Dialogs, Windows
<1> HIDE DEF d
<1>2. None \notin store
  BY LibraryAssumption DEF LInv, TypeOK, VmsTyped
<1>3. Fits(w, store, phase, d.kind = "leave") /\ Asks(d, store, w)
  BY <1>1, <1>2 DEF Fits, Asks
<1>4. Follows(w, win', phase, phase')
  BY WindowSame
<1>5. dialog' = d
  BY DEF d
<1> QED
  BY <1>1, <1>3, <1>4, <1>5, FollowsWindowed

LEMMA StartClickedKeeps ==
    ASSUME LInv, StartClicked
    PROVE  UserKept
<1>0. /\ CanAct /\ win.buttons = "Stopped" /\ UNCHANGED userSame /\ Start(win.cur, win)
      /\ win.edit /\ win.cur = win.pane => UNCHANGED box
  BY DEF StartClicked
<1>1. /\ store \in SUBSET Ids /\ win \in Windows /\ askingUsb \subseteq Ids
  BY DEF LInv, TypeOK, VmsTyped, WindowTyped
<1>2. /\ dialog = NoDialog /\ dialog.kind = "none" /\ ~win.leaving /\ clone = NoClone
      /\ win.cur \in store /\ win.cur = win.pane
      /\ Fits(win, store, phase, FALSE) /\ Asks(NoDialog, store, win)
  BY <1>0, MayAct
<1>3. CASE win.cur = win.pane /\ win.edit
  <2>1. /\ dialog' = [kind |-> "start", vm |-> win.cur] /\ win' = win
        /\ UNCHANGED <<askingUsb, starting, phase, asked, qemu, endedFrom, box>>
    BY <1>0, <1>3 DEF Start, Ask
  <2>2. Windowed
    BY <1>0, <1>1, <1>2, <2>1, Questions DEF userSame
  <2>3. RunSound
    BY <1>0, <2>1, NothingRan DEF userSame
  <2> QED
    BY <1>0, <1>1, <1>2, <2>1, <2>2, <2>3 DEF UserKept, userSame, disk
<1>4. CASE ~(win.cur = win.pane /\ win.edit)
  <2>1. GoStart(win.cur, win) /\ UNCHANGED dialog
    BY <1>0, <1>4 DEF Start
  <2>2. RunSound /\ Follows(win, win', phase, phase') /\ askingUsb' \subseteq Ids
    BY <1>0, <1>1, <1>2, <2>1, GoStartFacts DEF userSame
  <2>3. Windowed
    BY <1>0, <1>1, <1>2, <2>1, <2>2, NoQuestion, FollowsWindowed DEF Fits, userSame
  <2> QED
    BY <1>0, <1>2, <2>2, <2>3 DEF UserKept, userSame, disk
<1> QED
  BY <1>3, <1>4

LEMMA ForceOffKeeps ==
    ASSUME LInv, ForceOff
    PROVE  UserKept
<1>0. /\ CanAct /\ win.buttons \notin {"Stopped", "NoVm"} /\ IsActive(win.cur)
      /\ asked' = asked \cup {win.cur}
      /\ UNCHANGED <<userSame, qemu, dialog, box, askingUsb>>
  BY DEF ForceOff
<1>1. /\ TypeOK /\ RunFits /\ store \in SUBSET Ids /\ win \in Windows /\ askingUsb \subseteq Ids
      /\ asked \subseteq Ids /\ phase \in PhaseMap
  BY DEF LInv, TypeOK, VmsTyped, WindowTyped, PhaseMap
<1>2. /\ dialog = NoDialog /\ dialog.kind = "none" /\ clone = NoClone /\ win.cur \in store
      /\ Fits(win, store, phase, FALSE) /\ Asks(NoDialog, store, win)
  BY <1>0, MayAct
<1> DEFINE p == IF phase[win.cur] = "Running" THEN "Stopping" ELSE phase[win.cur]
<1>3. phase[win.cur] \in {"Starting", "Running", "Stopping"}
  BY <1>0, <1>1, <1>2 DEF IsActive, State, StateOf, PhaseMap, Phases
<1>4. /\ p \in Phases /\ p # "Attach" /\ p \in {"Starting", "Stopping"}
      /\ p = "Starting" => phase[win.cur] = "Starting"
  BY <1>3 DEF Phases
<1>5. StateChanged(win.cur, [phase EXCEPT ![win.cur] = p], win)
  BY DEF ForceOff
<1> HIDE DEF p
<1>6. p = "Starting" => win.cur \in starting
  BY <1>1, <1>2, <1>4 DEF RunFits, Notes
<1>7. RunKept(win.cur) /\ Follows(win, win', phase, phase')
  <2>1. asked' \subseteq Ids
    BY <1>0, <1>1, <1>2
  <2> QED
    BY <1>0, <1>1, <1>2, <1>4, <1>5, <1>6, <2>1, StateChangedKeeps DEF userSame
<1>8. Windowed
  BY <1>0, <1>1, <1>2, <1>7, NoQuestion, FollowsWindowed DEF Fits, userSame
<1> QED
  BY <1>0, <1>1, <1>2, <1>7, <1>8 DEF UserKept, RunKept, userSame, disk

LEMMA AskClickedKeeps ==
    ASSUME LInv, CloneClicked \/ RemoveClicked
    PROVE  UserKept
<1>0. /\ CanAct /\ win.buttons = "Stopped"
      /\ UNCHANGED <<userSame, vms, win, box, askingUsb, starting, endedFrom>>
      /\ \E kind \in {"clone", "cloning", "remove"} :
            /\ dialog' = [kind |-> kind, vm |-> win.cur]
            /\ kind = "cloning" => ~(win.cur = win.pane /\ win.edit)
  BY DEF CloneClicked, RemoveClicked, Ask
<1>1. store \in SUBSET Ids /\ win \in Windows /\ askingUsb \subseteq Ids
  BY DEF LInv, TypeOK, VmsTyped, WindowTyped
<1>2. /\ ~win.leaving /\ clone = NoClone
      /\ win.cur \in store /\ win.cur = win.pane /\ Fits(win, store, phase, FALSE)
  BY <1>0, MayAct
<1>3. Windowed
  <2>1. PICK kind \in {"clone", "cloning", "remove"} :
            /\ dialog' = [kind |-> kind, vm |-> win.cur]
            /\ kind = "cloning" => ~(win.cur = win.pane /\ win.edit)
    BY <1>0
  <2>2. /\ kind \in {"start", "clone", "remove", "cloning"}
        /\ kind = "cloning" => ~win.edit
    BY <1>2, <2>1
  <2>3. UNCHANGED <<store, phase>> /\ win' = win
    BY <1>0 DEF vms
  <2> QED
    BY <1>1, <1>2, <2>1, <2>2, <2>3, Questions
<1>4. RunSound
  BY <1>0, NothingRan DEF vms
<1> QED
  BY <1>0, <1>1, <1>2, <1>3, <1>4 DEF UserKept, userSame, disk

LEMMA ApplyClickedKeeps ==
    ASSUME LInv, ApplyClicked
    PROVE  UserKept
<1>0. /\ CanAct /\ win.edit /\ Writable(win.pane) /\ Saved(win.pane, Changed)
      /\ win' = [win EXCEPT !.edit = FALSE]
      /\ UNCHANGED <<store, phase, asked, qemu, dialog, box, askingUsb, starting, endedFrom,
                     clone, byHand, restarts, went, halves>>
  BY DEF ApplyClicked
<1>1. /\ store \in SUBSET Ids /\ win \in Windows /\ askingUsb \subseteq Ids
  BY DEF LInv, TypeOK, VmsTyped, WindowTyped
<1>2. /\ dialog = NoDialog /\ dialog.kind = "none" /\ clone = NoClone /\ win.pane \in store
      /\ Fits(win, store, phase, FALSE)
  BY <1>0, MayAct
<1>3. /\ win' \in Windows /\ win'.cur = win.cur /\ win'.pane = win.pane
      /\ win'.leaving = win.leaving /\ win'.buttons = win.buttons /\ ~win'.edit
  BY <1>0, <1>1 DEF Windows
<1>4. Windowed
  <2>1. WinFits'
    BY <1>0, <1>2, <1>3 DEF WinFits, Fits
  <2>2. DialogFits' /\ dialog' \in Dialogs
    BY <1>0, <1>1, <1>2, NoQuestion DEF DialogFits
  <2>3. KeepsEdits
    BY <1>0, <1>2, <1>3 DEF KeepsEdits
  <2> QED
    BY <1>3, <2>1, <2>2, <2>3 DEF Windowed
<1>5. RunSound
  BY <1>0, NothingRan
<1> QED
  BY <1>0, <1>1, <1>2, <1>4, <1>5 DEF UserKept

(* The window, once it shows the VM that a message is about                 *)
LEMMA BoxShows ==
    ASSUME LInv, dialog = NoDialog, ~win.leaving, box.vm \in store,
           NEW shown, shown = SelectIn(win, box.vm, phase)
    PROVE  /\ shown \in Windows /\ Fits(shown, store, phase, FALSE)
           /\ shown.cur = box.vm
           /\ win.edit => shown.pane = win.pane /\ shown.edit
           /\ shown.leaving => shown.pane # shown.cur
<1>1. PICK id : id = box.vm
  OBVIOUS
<1>2. /\ phase \in PhaseMap /\ win \in Windows /\ store \in SUBSET Ids
      /\ id \in store /\ Fits(win, store, phase, TRUE)
      /\ ~win.leaving /\ win.cur = id => win.pane = id
  <2>1. dialog.kind = "none"
    BY DEF NoDialog
  <2> QED
    BY <1>1, <2>1 DEF LInv, TypeOK, VmsTyped, WindowTyped, PhaseMap, WinFits, Fits
<1>3. LET v == SelectIn(win, id, phase) IN
      /\ v \in Windows /\ Fits(v, store, phase, FALSE) /\ v.cur = id
      /\ win.edit => v.pane = win.pane /\ v.edit
      /\ v.leaving => win.leaving \/ v.pane # v.cur
  <2>1. PICK S \in SUBSET Ids, phases \in PhaseMap, w \in Windows, x \in Ids :
          S = store /\ phases = phase /\ w = win /\ x = id
    BY <1>2
  <2>2. /\ Fits(w, S, phases, TRUE) /\ (~w.leaving /\ w.cur = x => w.pane = x) /\ x \in S
    BY <1>2, <2>1
  <2>3. LET v == SelectIn(w, x, phases) IN
        /\ v \in Windows /\ Fits(v, S, phases, FALSE)
        /\ v.cur = x
        /\ w.edit => v.pane = w.pane /\ v.edit
        /\ v.edit => w.edit
        /\ w.leaving => v.leaving
        /\ v.leaving => w.leaving \/ v.pane # v.cur
    BY ONLY <2>2, x \in S, S \in SUBSET Ids, w \in Windows, phases \in PhaseMap,
       SelectInFacts, ZenonT(60)
  <2> QED
    BY <2>1, <2>3
<1> QED
  BY <1>1, <1>3

LEMMA BoxClosedKeeps ==
    ASSUME LInv, BoxClosed
    PROVE  UserKept
<1>0. /\ dialog = NoDialog /\ ~win.leaving /\ box' = NoBox
      /\ UNCHANGED <<userSame, phase, asked, qemu, starting, endedFrom>>
  BY DEF BoxClosed
<1>1. /\ store \in SUBSET Ids /\ phase \in PhaseMap /\ win \in Windows /\ askingUsb \subseteq Ids
  BY DEF LInv, TypeOK, VmsTyped, WindowTyped, PhaseMap
<1>2. /\ dialog.kind = "none" /\ clone = NoClone
      /\ Fits(win, store, phase, FALSE) /\ Fits(win, store, phase, TRUE) /\ win.cur = win.pane
  <2>1. dialog.kind = "none"
    BY <1>0 DEF NoDialog
  <2> QED
    BY <1>0, <2>1 DEF LInv, CloneFits, WinFits, Fits
<1>3. RunSound
  BY <1>0, NothingRan DEF userSame
<1> DEFINE shown == SelectIn(win, box.vm, phase)
<1>4. ASSUME box.vm \in store
      PROVE  /\ shown \in Windows /\ Fits(shown, store, phase, FALSE)
             /\ shown.cur = box.vm
             /\ win.edit => shown.pane = win.pane /\ shown.edit
             /\ shown.leaving => shown.pane # shown.cur
  BY <1>0, <1>4, BoxShows
<1>5. CASE UNCHANGED <<win, dialog, askingUsb>>
  <2>1. Windowed
    BY <1>0, <1>1, <1>2, <1>5, NoQuestion, WindowSame, FollowsWindowed DEF Fits, userSame
  <2> QED
    BY <1>0, <1>1, <1>2, <1>3, <1>5, <2>1 DEF UserKept, userSame, disk
<1>6. CASE box.vm \in store /\ win' = shown /\ UNCHANGED dialog /\ askingUsb' \subseteq Ids
  <2> HIDE DEF shown
  <2>1. Follows(shown, win', phase, phase')
    BY <1>0, <1>4, <1>6, WindowSame
  <2>2. Windowed
    BY <1>0, <1>1, <1>2, <1>4, <1>6, <2>1, NoQuestion, FollowsWindowed DEF Fits, userSame
  <2> QED
    BY <1>0, <1>1, <1>2, <1>3, <1>6, <2>2 DEF UserKept, userSame, disk
<1>7. CASE /\ box.vm \in store /\ win' = shown /\ box.vm = shown.pane /\ shown.edit
           /\ Ask("start", box.vm) /\ UNCHANGED askingUsb
  <2> HIDE DEF shown
  <2>1. ~shown.leaving /\ dialog' = [kind |-> "start", vm |-> shown.cur] /\ shown.cur \in store
    BY <1>4, <1>7 DEF Ask
  <2>2. Windowed
    BY <1>0, <1>1, <1>2, <1>4, <1>7, <2>1, Questions DEF userSame
  <2> QED
    BY <1>0, <1>1, <1>2, <1>3, <1>7, <2>2 DEF UserKept, userSame, disk
<1>8. \/ UNCHANGED <<win, dialog, askingUsb>>
      \/ box.vm \in store /\ win' = shown /\ UNCHANGED <<dialog, askingUsb>>
      \/ /\ box.vm \in store /\ win' = shown
         /\ IF box.vm = shown.pane /\ shown.edit
            THEN Ask("start", box.vm) /\ UNCHANGED askingUsb
            ELSE askingUsb' = askingUsb \cup {box.vm} /\ UNCHANGED dialog
  BY DEF BoxClosed
<1> HIDE DEF shown
<1>9. box.vm \in store => askingUsb \cup {box.vm} \subseteq Ids
  BY <1>1
<1> QED
  BY <1>1, <1>5, <1>6, <1>7, <1>8, <1>9

LEMMA AnswerNoKeeps ==
    ASSUME LInv, AnswerNo
    PROVE  UserKept
<1>0. /\ dialog.kind \in {"leave", "start", "clone", "remove"} /\ dialog' = NoDialog
      /\ win' = IF dialog.kind = "leave" THEN SelectIn(win, dialog.vm, phase) ELSE win
      /\ UNCHANGED <<userSame, phase, asked, qemu, box, askingUsb, starting, endedFrom>>
  BY DEF AnswerNo
<1>1. /\ store \in SUBSET Ids /\ phase \in PhaseMap /\ win \in Windows /\ askingUsb \subseteq Ids
  BY DEF LInv, TypeOK, VmsTyped, WindowTyped, PhaseMap
<1>2. clone = NoClone
  BY <1>0, NoCloneElse
<1>3. RunSound
  BY <1>0, NothingRan DEF userSame
<1>4. PICK v \in Windows :
        /\ win' = v /\ Fits(v, store, phase, FALSE)
        /\ win.edit => v.pane = win.pane \/ dialog.kind = "leave"
  <2>1. CASE dialog.kind = "leave"
    <3>1. dialog.vm = win.pane /\ dialog.vm \in store
      BY <2>1 DEF LInv, DialogFits, Asks
    <3>2. Fits(win, store, phase, TRUE) /\ (~win.leaving /\ win.cur = dialog.vm => win.pane = dialog.vm)
      BY <3>1 DEF LInv, WinFits, Fits
    <3>3. /\ SelectIn(win, dialog.vm, phase) \in Windows
          /\ Fits(SelectIn(win, dialog.vm, phase), store, phase, FALSE)
      BY <1>1, <3>1, <3>2, SelectInFacts
    <3>4. win' = SelectIn(win, dialog.vm, phase)
      BY <1>0, <2>1
    <3> HIDE DEF SelectIn, Fits
    <3> QED
      BY <2>1, <3>3, <3>4
  <2>2. CASE dialog.kind # "leave"
    <3>1. win' = win
      BY <1>0, <2>2
    <3>2. Fits(win, store, phase, FALSE)
      BY <2>2 DEF LInv, WinFits, Fits
    <3> QED
      BY <1>1, <3>1, <3>2
  <2> QED
    BY <2>1, <2>2
<1>5. Windowed
  <2>1. Follows(v, win', phase, phase')
    BY <1>0, <1>4, WindowSame
  <2>2. Fits(v, store, phase, NoDialog.kind = "leave")
    BY <1>4, <1>1, NoQuestion DEF Fits
  <2>3. win.edit => v.pane = win.pane \/ dialog.kind = "leave"
    BY <1>4
  <2> QED
    BY <1>0, <1>1, <2>1, <2>2, <2>3, NoQuestion, FollowsWindowed DEF userSame
<1> QED
  BY <1>0, <1>1, <1>2, <1>3, <1>5 DEF UserKept, userSame, disk

LEMMA AnswerYesKeeps ==
    ASSUME LInv, NEW a \in {Changed, "discard"}, AnswerYes(a)
    PROVE  UserKept
<1> DEFINE w == [win EXCEPT !.edit = FALSE]
<1>0. /\ dialog.kind \in {"leave", "start", "clone"} /\ Settles(dialog.vm, a)
      /\ \/ /\ dialog.kind = "leave"
            /\ dialog' = NoDialog
            /\ win' = ShowCurrent(w, phase)
            /\ UNCHANGED <<askingUsb, starting, phase, asked, qemu, endedFrom, box>>
         \/ /\ dialog.kind = "start"
            /\ dialog' = NoDialog
            /\ GoStart(dialog.vm, w)
         \/ /\ dialog.kind = "clone"
            /\ Ask("cloning", dialog.vm)
            /\ win' = w
            /\ UNCHANGED <<askingUsb, starting, phase, asked, qemu, endedFrom, box>>
      /\ UNCHANGED <<store, clone, byHand, restarts, went, halves>>
  BY DEF AnswerYes
<1>1. /\ store \in SUBSET Ids /\ phase \in PhaseMap /\ win \in Windows /\ askingUsb \subseteq Ids
  BY DEF LInv, TypeOK, VmsTyped, WindowTyped, PhaseMap
<1>2. clone = NoClone
  BY <1>0, NoCloneElse
<1>3. /\ w \in Windows /\ w.cur = win.cur /\ w.pane = win.pane /\ ~w.edit
      /\ w.leaving = win.leaving /\ w.buttons = win.buttons
  BY <1>1 DEF Windows
<1>4. dialog.vm \in store
  BY <1>0 DEF LInv, DialogFits, Asks
<1>5. \/ UNCHANGED <<folder, dirEvent, fileEvents, watched, args>>
      \/ \E id \in Ids : Writable(id) /\ Saved(id, Changed)
  <2>1. Changed # "discard"
    BY DEF Changed
  <2> QED
    BY <1>0, <1>1, <1>4, <2>1 DEF Settles, disk
<1>6. dialog.kind # "leave" => /\ ~w.leaving /\ w.cur = w.pane /\ dialog.vm = w.cur
                               /\ Fits(w, store, phase, FALSE)
  <2> SUFFICES ASSUME dialog.kind # "leave"
               PROVE  /\ ~w.leaving /\ w.cur = w.pane /\ dialog.vm = w.cur
                      /\ Fits(w, store, phase, FALSE)
    OBVIOUS
  <2>1. ~win.leaving /\ dialog.vm = win.cur
    BY <1>0 DEF LInv, DialogFits, Asks
  <2> HIDE DEF w
  <2> QED
    BY <2>1, <1>3 DEF LInv, WinFits, Fits
<1> HIDE DEF w
<1>7. CASE /\ dialog.kind = "leave" /\ dialog' = NoDialog /\ win' = ShowCurrent(w, phase)
           /\ UNCHANGED <<askingUsb, starting, phase, asked, qemu, endedFrom, box>>
  <2> DEFINE v == ShowCurrent(w, phase)
  <2>1. /\ v \in Windows /\ v.cur = w.cur /\ v.pane = w.cur /\ v.leaving = w.leaving
        /\ v.edit = (w.edit /\ w.pane = w.cur)
        /\ v.buttons = ButtonsFor(w.cur, phase)
    BY <1>1, <1>3, ShowCurrentFacts
  <2>2. win' = v
    BY <1>7
  <2> HIDE DEF v
  <2>3. {w.cur} \subseteq store \cup {None}
    BY <1>3 DEF LInv, WinFits, Fits
  <2>4. ~v.edit
    BY <1>3, <2>1
  <2>5. Fits(v, store, phase, NoDialog.kind = "leave")
    BY <2>1, <2>3, <2>4 DEF Fits
  <2>6. Follows(v, win', phase, phase')
    BY <1>7, <2>1, <2>2, WindowSame
  <2>7. Windowed
    BY <1>0, <1>1, <1>7, <2>1, <2>5, <2>6, NoQuestion, FollowsWindowed
  <2>8. RunSound
    BY <1>0, <1>7, NothingRan
  <2> QED
    BY <1>0, <1>1, <1>2, <1>5, <1>7, <2>7, <2>8 DEF UserKept
<1>8. CASE dialog.kind = "start" /\ dialog' = NoDialog /\ GoStart(dialog.vm, w)
  <2>1. RunSound /\ Follows(w, win', phase, phase') /\ askingUsb' \subseteq Ids
    BY <1>0, <1>1, <1>3, <1>4, <1>8, GoStartFacts
  <2>2. Fits(w, store, phase, NoDialog.kind = "leave") /\ w.pane = win.pane
    BY <1>3, <1>6, <1>8, <1>1, NoQuestion DEF Fits
  <2>3. Windowed
    BY <1>0, <1>1, <1>3, <1>8, <2>1, <2>2, NoQuestion, FollowsWindowed
  <2> QED
    BY <1>0, <1>2, <1>5, <2>1, <2>3 DEF UserKept
<1>9. CASE /\ dialog.kind = "clone" /\ Ask("cloning", dialog.vm) /\ win' = w
           /\ UNCHANGED <<askingUsb, starting, phase, asked, qemu, endedFrom, box>>
  <2>1. dialog' = [kind |-> "cloning", vm |-> w.cur] /\ dialog.kind # "none" /\ w.cur \in store
    BY <1>4, <1>6, <1>9 DEF Ask
  <2>2. Windowed
    BY <1>0, <1>3, <1>6, <1>9, <2>1, Questions
  <2>3. RunSound
    BY <1>0, <1>9, NothingRan
  <2> QED
    BY <1>0, <1>1, <1>2, <1>5, <1>9, <2>2, <2>3 DEF UserKept
<1> QED
  BY <1>0, <1>7, <1>8, <1>9

-----------------------------------------------------------------------------
(* The folders and the store, when nothing changes the list                 *)

Versioned == [Ids -> [args : Versions, disks : Nat]]

LEMMA FoldersSame ==
    ASSUME LInv, UNCHANGED <<folder, dirEvent, fileEvents, watched, store, args, clone,
                             byHand, restarts, went, halves>>
    PROVE  /\ DiskTyped' /\ FoldersFit' /\ WholeFits'
           /\ store' \subseteq Ids /\ args' \in [Ids -> Versions \ {"gone"}]
           /\ clone' \in Clones
<1> USE DEF LInv
<1>1. DiskTyped'
  BY DEF TypeOK, DiskTyped
<1>2. FoldersFit'
  BY DEF FoldersFit, Present
<1>3. WholeFits'
  BY DEF WholeFits, Present
<1> QED
  BY <1>1, <1>2, <1>3 DEF TypeOK, VmsTyped, WindowTyped

(* A vm.args that is saved: what the library has of it is the file, and the *)
(* watcher tells of it.                                                     *)
LEMMA SavedKeeps ==
    ASSUME LInv, NEW id \in Ids, Writable(id), Saved(id, Changed), clone = NoClone,
           UNCHANGED <<store, clone, byHand, restarts, went, halves>>
    PROVE  /\ DiskTyped' /\ FoldersFit' /\ WholeFits'
           /\ store' \subseteq Ids /\ args' \in [Ids -> Versions \ {"gone"}]
           /\ clone' \in Clones
<1>0. /\ folder \in Versioned /\ args \in [Ids -> Versions \ {"gone"}]
      /\ watched \subseteq Ids /\ fileEvents \subseteq Ids /\ store \subseteq Ids
      /\ Changed \in Versions \ {"gone", "bare"} /\ folder[id].args # "gone"
      /\ clone.to = None /\ None \notin Ids
  BY LibraryAssumption
  DEF LInv, TypeOK, DiskTyped, VmsTyped, Versioned, Versions, Full, Changed, Writable, NoClone
<1>1. /\ folder' = [folder EXCEPT ![id].args = Changed]
      /\ args' = [args EXCEPT ![id] = Changed]
      /\ fileEvents' = IF id \in watched THEN fileEvents \cup {id} ELSE fileEvents
      /\ watched' = watched \ {id}
      /\ UNCHANGED dirEvent
  BY DEF Saved
<1>2. /\ folder' \in Versioned /\ folder'[id].args = Changed
      /\ folder'[id].disks = folder[id].disks
      /\ \A x \in Ids \ {id} : folder'[x] = folder[x]
  BY <1>0, <1>1 DEF Versioned
<1>3. /\ args' \in [Ids -> Versions \ {"gone"}] /\ args'[id] = Changed
      /\ \A x \in Ids \ {id} : args'[x] = args[x]
  BY <1>0, <1>1
<1>4. Present(folder') = Present(folder)
  BY <1>0, <1>2 DEF Present
<1>5. DiskTyped'
  BY <1>0, <1>1, <1>2 DEF LInv, TypeOK, DiskTyped, Versioned
<1>6. FoldersFit'
  <2>1. ASSUME NEW x \in (store \cap Present(folder)) \ (fileEvents' \cup went)
        PROVE  x \in watched' /\ args'[x] = folder'[x].args
    <3>1. x \in watched /\ args[x] = folder[x].args
      BY <1>1 DEF LInv, FoldersFit
    <3>2. x # id /\ x \in Ids
      BY <1>0, <1>1, <3>1
    <3> QED
      BY <1>1, <1>2, <1>3, <3>1, <3>2
  <2> QED
    BY <1>1, <1>4, <2>1 DEF LInv, FoldersFit
<1>7. WholeFits'
  <2> SUFFICES ASSUME NEW x \in Ids \ halves
               PROVE  /\ folder'[x].args \notin {"gone", "bare"} => folder'[x].disks = NumDisks
                      /\ folder'[x].args = "bare" => x = clone.to
    BY DEF WholeFits
  <2>1. /\ folder[x].args \notin {"gone", "bare"} => folder[x].disks = NumDisks
        /\ folder[x].args = "bare" => x = clone.to
    BY DEF LInv, WholeFits
  <2>2. CASE x = id
    BY <1>0, <1>2, <2>1, <2>2
  <2>3. CASE x # id
    BY <1>2, <2>1, <2>3
  <2> QED
    BY <2>2, <2>3
<1> QED
  BY <1>0, <1>3, <1>5, <1>6, <1>7 DEF LInv, TypeOK, WindowTyped

(* The steps of the user keep the invariant.                                *)
LEMMA UserStep ==
    ASSUME LInv, UserKept
    PROVE  LInv' /\ KeepsEdits
<1>1. /\ DiskTyped' /\ FoldersFit' /\ WholeFits'
      /\ store' \subseteq Ids /\ args' \in [Ids -> Versions \ {"gone"}]
      /\ clone' \in Clones
  <2>1. CASE UNCHANGED <<folder, dirEvent, fileEvents, watched, args>>
    BY <2>1, FoldersSame DEF UserKept
  <2>2. CASE \E id \in Ids : Writable(id) /\ Saved(id, Changed)
    BY <2>2, SavedKeeps DEF UserKept
  <2> QED
    BY <2>1, <2>2 DEF UserKept
<1>2. TypeOK'
  BY <1>1 DEF UserKept, RunSound, Windowed, TypeOK, VmsTyped, WindowTyped, PhaseMap
<1>3. CloneFits'
  <2>1. clone' = NoClone
    BY DEF UserKept
  <2> QED
    BY <2>1 DEF CloneFits, NoClone
<1> QED
  BY <1>1, <1>2, <1>3 DEF UserKept, RunSound, Windowed, LInv

(* A clone under way is not touched by what a runner does.                  *)
LEMMA RunnerStep ==
    ASSUME LInv, NEW id \in Ids, Runner(id)
    PROVE  LInv' /\ KeepsEdits
<1>0. /\ UNCHANGED <<folder, dirEvent, fileEvents, watched, store, args, dialog, clone,
                     byHand, restarts, went, halves>>
      /\ RunSound /\ Follows(win, win', phase, phase')
      /\ askingUsb' \subseteq askingUsb
  BY RunnerFacts
<1>1. /\ DiskTyped' /\ FoldersFit' /\ WholeFits'
      /\ store' \subseteq Ids /\ args' \in [Ids -> Versions \ {"gone"}]
      /\ clone' \in Clones
  BY <1>0, FoldersSame
<1>2. Windowed
  <2>1. win \in Windows /\ dialog \in Dialogs
    BY DEF LInv, TypeOK, WindowTyped
  <2>2. Fits(win, store, phase, dialog.kind = "leave") /\ Asks(dialog, store, win)
    BY DEF LInv, WinFits, DialogFits
  <2>3. dialog.kind = "cloning" => dialog.kind # "none"
    OBVIOUS
  <2> QED
    BY <1>0, <2>1, <2>2, <2>3, FollowsWindowed
<1>3. TypeOK'
  BY <1>0, <1>1, <1>2 DEF RunSound, Windowed, LInv, TypeOK, VmsTyped, WindowTyped, PhaseMap
<1>4. CloneFits'
  BY <1>0 DEF LInv, CloneFits, NoClone
<1> QED
  BY <1>0, <1>1, <1>2, <1>3, <1>4 DEF RunSound, Windowed, LInv

-----------------------------------------------------------------------------
(* The watcher, and what others do to the folders                           *)

LEMMA WindowStays ==
    ASSUME LInv, UNCHANGED <<store, phase, asked, qemu, win, dialog, box, askingUsb, starting,
                             endedFrom>>
    PROVE  /\ store' \subseteq Ids /\ asked' \subseteq Ids /\ qemu' \subseteq Ids
           /\ phase' \in [Ids -> Phases]
           /\ win' \in Windows /\ dialog' \in Dialogs /\ box' \in Boxes
           /\ askingUsb' \subseteq Ids /\ starting' \subseteq Ids /\ endedFrom' \subseteq Ids
           /\ WinFits' /\ DialogFits' /\ RunFits' /\ KeepsEdits
<1> USE DEF LInv
<1>1. WinFits' /\ DialogFits'
  BY DEF WinFits, DialogFits
<1>2. RunFits'
  BY DEF RunFits, TellsWhy
<1>3. KeepsEdits
  BY DEF KeepsEdits
<1> QED
  BY <1>1, <1>2, <1>3 DEF TypeOK, VmsTyped, WindowTyped

(* Nor does what happens to other folders touch the clone under way.        *)
LEMMA CloneStays ==
    ASSUME LInv, UNCHANGED <<dialog, clone, store>>,
           clone # NoClone => folder'[clone.to] = folder[clone.to]
    PROVE  CloneFits' /\ clone' \in Clones
<1>1. clone' \in Clones
  BY DEF LInv, TypeOK, WindowTyped
<1>2. CASE clone = NoClone
  BY <1>1, <1>2 DEF CloneFits, NoClone
<1>3. CASE clone # NoClone
  BY <1>1, <1>3 DEF LInv, CloneFits, NoClone
<1> QED
  BY <1>2, <1>3

LEMMA FileChangedKeeps ==
    ASSUME LInv, NEW id \in Ids, FileChanged(id)
    PROVE  LInv' /\ KeepsEdits
<1>0. /\ folder \in Versioned /\ args \in [Ids -> Versions \ {"gone"}]
      /\ watched \subseteq Ids /\ fileEvents \subseteq Ids /\ store \subseteq Ids
  BY DEF LInv, TypeOK, DiskTyped, VmsTyped, Versioned
<1>1. /\ fileEvents' = fileEvents \ {id}
      /\ UNCHANGED <<folder, qemu, dirEvent, store, phase, asked, win, dialog, box, askingUsb,
                     starting, endedFrom, clone, byHand, restarts, went, halves>>
  BY DEF FileChanged, window
<1>2. /\ id \in store /\ id \in Present(folder) =>
            args' = [args EXCEPT ![id] = folder[id].args] /\ watched' = watched \cup {id}
      /\ id \in store /\ id \notin Present(folder) =>
            args' = [args EXCEPT ![id] = "empty"] /\ watched' = watched
      /\ id \notin store => UNCHANGED <<args, watched>>
  BY DEF FileChanged
<1>3. /\ args' \in [Ids -> Versions \ {"gone"}] /\ watched' \subseteq Ids
      /\ watched \subseteq watched'
      /\ \A x \in Ids \ {id} : args'[x] = args[x]
      /\ id \in store /\ id \in Present(folder) => args'[id] = folder[id].args /\ id \in watched'
      /\ id \in store /\ id \notin Present(folder) => args'[id] = "empty"
  <2>1. CASE id \in store /\ id \in Present(folder)
    <3>1. folder[id].args \in Versions \ {"gone"}
      BY <1>0, <2>1 DEF Present, Versioned
    <3> QED
      BY <1>0, <1>2, <2>1, <3>1
  <2>2. CASE id \in store /\ id \notin Present(folder)
    BY <1>0, <1>2, <2>2 DEF Versions
  <2>3. CASE id \notin store
    BY <1>0, <1>2, <2>3
  <2> QED
    BY <2>1, <2>2, <2>3
<1>4. Present(folder') = Present(folder)
  BY <1>1 DEF Present
<1>5. TypeOK'
  <2>1. DiskTyped'
    BY <1>1, <1>3 DEF LInv, TypeOK, DiskTyped
  <2> QED
    BY <1>1, <1>3, <2>1, WindowStays, CloneStays DEF TypeOK, VmsTyped, WindowTyped
<1>6. FoldersFit'
  <2>1. ASSUME NEW x \in (store \cap Present(folder)) \ (fileEvents' \cup went)
        PROVE  x \in watched' /\ args'[x] = folder'[x].args
    <3>1. CASE x = id
      BY <1>1, <1>3, <3>1
    <3>2. CASE x # id
      BY <1>0, <1>1, <1>3, <3>2 DEF LInv, FoldersFit
    <3> QED
      BY <3>1, <3>2
  <2> QED
    BY <1>1, <1>4, <2>1 DEF LInv, FoldersFit
<1>7. WholeFits'
  BY <1>1 DEF LInv, WholeFits
<1>8. CloneFits'
  BY <1>1, CloneStays
<1> QED
  BY <1>1, <1>5, <1>6, <1>7, <1>8, WindowStays DEF LInv

(* Folders that come, go and change outside the manager.                    *)
LEMMA OutsideKeeps ==
    ASSUME LInv, NEW id \in Ids, DropIn(id) \/ TakeAway(id) \/ EditByHand(id)
    PROVE  LInv' /\ KeepsEdits
<1>0. /\ folder \in Versioned /\ args \in [Ids -> Versions \ {"gone"}]
      /\ watched \subseteq Ids /\ fileEvents \subseteq Ids /\ store \subseteq Ids
      /\ NumDisks \in Nat
  BY LibraryAssumption DEF LInv, TypeOK, DiskTyped, VmsTyped, Versioned
<1>1. /\ byHand' = byHand + 1
      /\ UNCHANGED <<store, args, phase, asked, qemu, win, dialog, box, askingUsb, starting,
                     endedFrom, clone, restarts, went, halves>>
  BY DEF DropIn, TakeAway, EditByHand, ByHand, vms, window
<1>2. PICK new \in [args : Versions, disks : Nat] :
        /\ folder' = [folder EXCEPT ![id] = new]
        /\ new.args # "bare"
        /\ new.args \notin {"gone", "bare"} => \/ new.disks = NumDisks
                                               \/ new.disks = folder[id].disks /\ folder[id].args \in Full
  <2>1. CASE DropIn(id)
    <3> DEFINE r == Whole(New)
    <3>1. /\ r \in [args : Versions, disks : Nat] /\ r.args = New /\ r.disks = NumDisks
          /\ New # "bare"
      BY <1>0 DEF Whole, Versions, Full, New
    <3>2. folder' = [folder EXCEPT ![id] = r]
      BY <2>1 DEF DropIn
    <3> HIDE DEF r
    <3> QED
      BY <3>1, <3>2
  <2>2. CASE TakeAway(id)
    <3>1. Gone \in [args : Versions, disks : Nat]
      BY DEF Gone, Versions
    <3> QED
      BY <2>2, <3>1 DEF TakeAway, Gone
  <2>3. CASE EditByHand(id)
    <3>1. PICK v \in Full : folder' = [folder EXCEPT ![id].args = v]
      BY <2>3 DEF EditByHand
    <3> DEFINE r == [folder[id] EXCEPT !.args = v]
    <3>2. folder[id] \in [args : Versions, disks : Nat] /\ folder[id].args \in Full
      BY <1>0, <2>3 DEF EditByHand, Versioned
    <3>3. r \in [args : Versions, disks : Nat] /\ r.args = v /\ r.disks = folder[id].disks
      BY <3>1, <3>2 DEF Versions
    <3>4. v \notin {"gone", "bare"}
      BY DEF Full, New, Changed
    <3>5. folder' = [folder EXCEPT ![id] = r]
      BY <3>1
    <3> HIDE DEF r
    <3> QED
      BY <3>2, <3>3, <3>4, <3>5
  <2> QED
    BY <2>1, <2>2, <2>3
<1>3. /\ folder' \in Versioned /\ folder'[id] = new
      /\ \A x \in Ids \ {id} : folder'[x] = folder[x]
  BY <1>0, <1>2 DEF Versioned
<1>4. /\ fileEvents \subseteq fileEvents' /\ fileEvents' \subseteq Ids
      /\ watched' \subseteq watched /\ watched \ {id} \subseteq watched'
      /\ dirEvent' \in BOOLEAN
      /\ ~dirEvent' => ~dirEvent /\ id \in Present(folder) /\ id \in Present(folder')
      /\ \/ id \in fileEvents' \/ id \notin watched
         \/ ~dirEvent /\ id \notin Present(folder)
  <2>1. CASE DropIn(id)
    <3>1. /\ folder[id] = Gone /\ ~dirEvent /\ dirEvent' = TRUE
          /\ UNCHANGED <<fileEvents, watched>>
      BY <2>1 DEF DropIn
    <3>2. id \notin Present(folder)
      BY <3>1 DEF Present, Gone
    <3>3. /\ fileEvents \subseteq fileEvents' /\ fileEvents' \subseteq Ids
          /\ watched' \subseteq watched /\ watched \ {id} \subseteq watched'
      BY <1>0, <3>1
    <3>4. dirEvent' \in BOOLEAN /\ dirEvent'
      BY <3>1
    <3>5. ~dirEvent /\ id \notin Present(folder)
      BY <3>1, <3>2
    <3> QED
      BY <3>3, <3>4, <3>5
  <2>2. CASE TakeAway(id)
    <3>1. /\ dirEvent' = TRUE /\ watched' = watched \ {id}
          /\ fileEvents' = IF id \in watched THEN fileEvents \cup {id} ELSE fileEvents
      BY <2>2 DEF TakeAway
    <3> QED
      BY <1>0, <3>1
  <2>3. CASE EditByHand(id)
    <3>1. folder[id].args \in Full /\ UNCHANGED dirEvent
      BY <2>3 DEF EditByHand
    <3>2. folder'[id].args \in Full
      <4>1. PICK v \in Full : folder' = [folder EXCEPT ![id].args = v]
        BY <2>3 DEF EditByHand
      <4> QED
        BY <1>0, <4>1 DEF Versioned
    <3>3. id \in Present(folder) /\ id \in Present(folder')
      BY <3>1, <3>2 DEF Present, Full, New, Changed
    <3> QED
      <4>1. /\ watched' \in {watched, watched \ {id}}
            /\ fileEvents' = IF id \in watched THEN fileEvents \cup {id} ELSE fileEvents
        BY <2>3 DEF EditByHand
      <4>2. dirEvent \in BOOLEAN
        BY DEF LInv, TypeOK, DiskTyped
      <4>3. /\ fileEvents \subseteq fileEvents' /\ fileEvents' \subseteq Ids
            /\ watched' \subseteq watched /\ watched \ {id} \subseteq watched'
            /\ id \in fileEvents' \/ id \notin watched
        BY <1>0, <4>1
      <4>4. dirEvent' \in BOOLEAN /\ (~dirEvent' => ~dirEvent)
        BY <3>1, <4>2
      <4> QED
        BY <3>3, <4>3, <4>4
  <2> QED
    BY <2>1, <2>2, <2>3
<1>5. ~dirEvent' => Present(folder') = Present(folder)
  <2>1. \A x \in Ids \ {id} : x \in Present(folder') <=> x \in Present(folder)
    BY <1>3 DEF Present
  <2>2. Present(folder') \subseteq Ids /\ Present(folder) \subseteq Ids
    BY DEF Present
  <2> HIDE DEF Present
  <2> QED
    BY <1>4, <2>1, <2>2
<1>6. TypeOK'
  <2>1. DiskTyped'
    BY <1>0, <1>1, <1>3, <1>4 DEF LInv, TypeOK, DiskTyped, Versioned
  <2>2. clone' \in Clones
    BY <1>1 DEF LInv, TypeOK, WindowTyped
  <2> QED
    BY <1>0, <1>1, <2>1, <2>2, WindowStays DEF TypeOK, VmsTyped, WindowTyped
<1>7. FoldersFit'
  <2>1. ~dirEvent' => store = Present(folder') \cup went
    BY <1>4, <1>5 DEF LInv, FoldersFit, TypeOK, DiskTyped
  <2>2. ASSUME NEW x \in (store \cap Present(folder')) \ (fileEvents' \cup went)
        PROVE  x \in watched' /\ args'[x] = folder'[x].args
    <3>1. CASE x # id
      <4>1. x \in Present(folder) /\ folder'[x] = folder[x]
        BY <1>3, <3>1 DEF Present
      <4> QED
        BY <1>1, <1>4, <3>1, <4>1 DEF LInv, FoldersFit
    <3>2. CASE x = id
      <4>1. id \notin fileEvents' /\ id \in store /\ id \notin went
        BY <3>2
      <4>2. ~(~dirEvent /\ id \notin Present(folder))
        BY <4>1 DEF LInv, FoldersFit
      <4>3. id \notin watched
        BY <1>4, <4>1, <4>2
      <4>4. id \in Present(folder)
        <5>1. CASE DropIn(id)
          BY <4>2, <5>1 DEF DropIn
        <5>2. CASE TakeAway(id)
          <6>1. id \notin Present(folder')
            <7>1. Gone \in [args : Versions, disks : Nat] /\ Gone.args = "gone"
              BY DEF Gone, Versions
            <7>2. folder'[id] = Gone
              BY <1>0, <5>2, <7>1 DEF TakeAway, Versioned
            <7> QED
              BY <7>1, <7>2 DEF Present
          <6> QED
            BY <3>2, <6>1
        <5>3. CASE EditByHand(id)
          BY <5>3 DEF EditByHand, Present, Full, New, Changed
        <5> QED
          BY <5>1, <5>2, <5>3
      <4> QED
        BY <1>4, <4>1, <4>3, <4>4 DEF LInv, FoldersFit
    <3> QED
      BY <3>1, <3>2
  <2> QED
    BY <1>1, <2>1, <2>2 DEF LInv, FoldersFit
<1>8. WholeFits'
  <2> SUFFICES ASSUME NEW x \in Ids \ halves
               PROVE  /\ folder'[x].args \notin {"gone", "bare"} => folder'[x].disks = NumDisks
                      /\ folder'[x].args = "bare" => x = clone.to
    BY <1>1 DEF WholeFits
  <2>1. /\ folder[x].args \notin {"gone", "bare"} => folder[x].disks = NumDisks
        /\ folder[x].args = "bare" => x = clone.to
    BY DEF LInv, WholeFits
  <2>2. CASE x = id
    <3>1. folder[id].args \in Full => folder[id].args \notin {"gone", "bare"}
      BY DEF Full, New, Changed
    <3> QED
      BY <1>2, <1>3, <2>1, <2>2, <3>1
  <2>3. CASE x # id
    BY <1>3, <2>1, <2>3
  <2> QED
    BY <2>2, <2>3
<1>9. CloneFits'
  <2>1. clone # NoClone => clone.to \in Ids /\ folder[clone.to].args = "bare"
    BY <1>0 DEF LInv, CloneFits
  <2>2. clone # NoClone => clone.to # id
    <3>1. CASE DropIn(id)
      BY <2>1, <3>1 DEF DropIn, Gone
    <3>2. CASE TakeAway(id)
      BY <3>2 DEF TakeAway
    <3>3. CASE EditByHand(id)
      BY <2>1, <3>3 DEF EditByHand, Full, New, Changed
    <3> QED
      BY <3>1, <3>2, <3>3
  <2> QED
    BY <1>1, <1>3, <2>1, <2>2, CloneStays
<1> QED
  BY <1>1, <1>6, <1>7, <1>8, <1>9, WindowStays DEF LInv

-----------------------------------------------------------------------------
(* The clone, and the manager that ends                                     *)

(* What is known of the clone under way                                     *)
LEMMA CloneFacts ==
    ASSUME LInv, clone # NoClone
    PROVE  /\ dialog.kind = "cloning" /\ clone.to \in store /\ clone.to \in Ids
           /\ clone.from \in Ids /\ clone.left \in Nat /\ clone.left > 0
           /\ clone.args \in Versions \ {"gone"} /\ folder[clone.to].args = "bare"
           /\ clone.to \in Present(folder)
           /\ folder[clone.to].disks \in Nat
           /\ folder[clone.to].disks + clone.left = NumDisks
           /\ clone.args # "bare" /\ clone.from # clone.to
<1>1. /\ dialog.kind = "cloning" /\ clone.to \in store /\ clone.to \in Ids
      /\ clone.from \in Ids /\ clone.left > 0
      /\ clone.args # "none" /\ folder[clone.to].args = "bare"
      /\ folder[clone.to].disks + clone.left = NumDisks
      /\ clone.args # "bare" /\ clone.from # clone.to
  BY DEF LInv, CloneFits, TypeOK, VmsTyped
<1>2. clone.left \in Nat /\ clone.args \in Versions \ {"gone"}
  BY <1>1 DEF LInv, TypeOK, WindowTyped, Clones
<1>3. folder[clone.to].disks \in Nat
  BY <1>1 DEF LInv, TypeOK, DiskTyped
<1>4. clone.to \in Present(folder)
  BY <1>1 DEF Present
<1> QED
  BY <1>1, <1>2, <1>3, <1>4

LEMMA CopyEndsKeeps ==
    ASSUME LInv, CopyEnds
    PROVE  LInv' /\ KeepsEdits
<1>0. /\ clone.left > 1
      /\ folder' = [folder EXCEPT ![clone.to].disks = @ + 1]
      /\ clone' = [clone EXCEPT !.left = @ - 1]
      /\ UNCHANGED <<dirEvent, fileEvents, watched, store, args, phase, asked, qemu, win, dialog,
                     box, askingUsb, starting, endedFrom, byHand, restarts, went, halves>>
  BY DEF CopyEnds, vms, window
<1>1. clone # NoClone
  BY <1>0 DEF NoClone
<1>2. PICK to \in Ids : to = clone.to
  BY <1>1, CloneFacts
<1>3. /\ dialog.kind = "cloning" /\ to \in store /\ clone.from \in Ids
      /\ clone.left \in Nat /\ clone.left > 0
      /\ clone.args \in Versions \ {"gone"} /\ folder[to].args = "bare"
      /\ folder[to].disks \in Nat /\ folder[to].disks + clone.left = NumDisks
      /\ clone.args # "bare" /\ clone.from # to
  BY <1>1, <1>2, CloneFacts
<1>4. folder \in Versioned /\ clone \in Clones /\ store \subseteq Ids
  BY DEF LInv, TypeOK, DiskTyped, VmsTyped, WindowTyped, Versioned
<1>5. /\ folder' \in Versioned /\ folder'[to].args = "bare"
      /\ folder'[to].disks = folder[to].disks + 1
      /\ \A x \in Ids \ {to} : folder'[x] = folder[x]
      /\ \A x \in Ids : folder'[x].args = folder[x].args
  <2>1. folder' = [folder EXCEPT ![to].disks = folder[to].disks + 1]
    BY <1>0, <1>2, <1>4 DEF Versioned
  <2> QED
    BY <1>3, <1>4, <2>1 DEF Versioned
<1>6. /\ clone' \in Clones /\ clone'.left = clone.left - 1 /\ clone'.to = to
      /\ clone'.from = clone.from /\ clone'.args = clone.args
  <2>1. clone.left - 1 \in Nat
    BY <1>3
  <2> QED
    BY <1>0, <1>2, <1>4, <2>1 DEF Clones
<1>7. Present(folder') = Present(folder)
  BY <1>5 DEF Present
<1>8. TypeOK'
  BY <1>0, <1>4, <1>5, <1>6, WindowStays
  DEF LInv, TypeOK, DiskTyped, VmsTyped, WindowTyped, Versioned
<1>9. FoldersFit'
  <2>1. ASSUME NEW x \in store \cap Present(folder)
        PROVE  folder'[x].args = folder[x].args
    BY <1>4, <1>5
  <2> QED
    BY <1>0, <1>7, <2>1 DEF LInv, FoldersFit
<1>10. CloneFits'
  <2>1. /\ clone'.left > 0 /\ folder'[to].disks + clone'.left = NumDisks
    BY <1>0, <1>3, <1>5, <1>6
  <2>2. clone'.args \notin {"none", "bare"}
    BY <1>3, <1>6 DEF Versions, Full, New, Changed
  <2> QED
    BY <1>0, <1>3, <1>5, <1>6, <2>1, <2>2 DEF CloneFits
<1>11. WholeFits'
  <2> SUFFICES ASSUME NEW x \in Ids \ halves
               PROVE  /\ folder'[x].args \notin {"gone", "bare"} => folder'[x].disks = NumDisks
                      /\ folder'[x].args = "bare" => x = clone'.to
    BY <1>0 DEF WholeFits
  <2>1. CASE x = to
    BY <1>5, <1>6, <2>1
  <2>2. CASE x # to
    BY <1>2, <1>5, <1>6, <2>2 DEF LInv, WholeFits
  <2> QED
    BY <2>1, <2>2
<1> QED
  BY <1>0, <1>8, <1>9, <1>10, <1>11, WindowStays DEF LInv

LEMMA CloneEndsKeeps ==
    ASSUME LInv, CloneEnds
    PROVE  LInv' /\ KeepsEdits
<1>0. /\ clone.left = 1
      /\ folder' = [folder EXCEPT ![clone.to] = [args |-> clone.args,
                                                 disks |-> folder[clone.to].disks + 1]]
      /\ args' = [args EXCEPT ![clone.to] = clone.args]
      /\ fileEvents' = IF clone.to \in watched THEN fileEvents \cup {clone.to} ELSE fileEvents
      /\ watched' = watched \ {clone.to}
      /\ clone' = NoClone /\ dialog' = NoDialog
      /\ win' = SelectIn(win, clone.to, phase)
      /\ UNCHANGED <<dirEvent, qemu, store, phase, asked, box, askingUsb, starting, endedFrom,
                     byHand, restarts, went, halves>>
  <2>1. folder \in Versioned
    BY DEF LInv, TypeOK, DiskTyped, Versioned
  <2> QED
    BY <2>1 DEF CloneEnds, Versioned
<1>1. clone # NoClone
  BY <1>0 DEF NoClone
<1>2. PICK to \in Ids : to = clone.to
  BY <1>1, CloneFacts
<1>3. PICK v \in Versions \ {"gone"} : v = clone.args
  BY <1>1, CloneFacts
<1>4. /\ dialog.kind = "cloning" /\ to \in store /\ folder[to].args = "bare"
      /\ folder[to].disks \in Nat /\ folder[to].disks + 1 = NumDisks
      /\ v # "bare"
      /\ None \notin Ids
  BY <1>0, <1>1, <1>2, <1>3, CloneFacts, LibraryAssumption
<1>5. /\ folder \in Versioned /\ args \in [Ids -> Versions \ {"gone"}] /\ store \subseteq Ids
      /\ fileEvents \subseteq Ids /\ watched \subseteq Ids /\ phase \in PhaseMap
      /\ win \in Windows
  BY DEF LInv, TypeOK, DiskTyped, VmsTyped, WindowTyped, Versioned, PhaseMap
<1>6. /\ folder' \in Versioned /\ folder'[to].args = v /\ folder'[to].disks = NumDisks
      /\ \A x \in Ids \ {to} : folder'[x] = folder[x]
  <2> DEFINE r == [args |-> v, disks |-> folder[to].disks + 1]
  <2>1. r \in [args : Versions, disks : Nat] /\ r.args = v /\ r.disks = NumDisks
    BY <1>4
  <2>2. folder' = [folder EXCEPT ![to] = r]
    BY <1>0, <1>2, <1>3
  <2> HIDE DEF r
  <2> QED
    BY <1>5, <2>1, <2>2 DEF Versioned
<1>7. /\ args' \in [Ids -> Versions \ {"gone"}] /\ args'[to] = v
      /\ \A x \in Ids \ {to} : args'[x] = args[x]
  BY <1>0, <1>2, <1>3, <1>5
<1>8. Present(folder') = Present(folder)
  <2>1. \A x \in Ids : folder'[x].args = "gone" <=> folder[x].args = "gone"
    <3> TAKE x \in Ids
    <3>1. CASE x = to
      BY <1>4, <1>6, <3>1
    <3>2. CASE x # to
      BY <1>6, <3>2
    <3> QED
      BY <3>1, <3>2
  <2> QED
    BY <2>1 DEF Present
<1>9. NoClone \in Clones /\ NoClone.to = None
  BY DEF NoClone, Clones
<1>10. Windowed
  <2> DEFINE s == SelectIn(win, to, phase)
  <2>1. win.cur = to /\ ~win.leaving => win.pane = to
    BY <1>4 DEF LInv, WinFits, Fits
  <2>2. Fits(win, store, phase, TRUE)
    BY DEF LInv, WinFits, Fits
  <2>3. s \in Windows /\ Fits(s, store, phase, FALSE) /\ (win.edit => s.pane = win.pane)
    <3>1. store \in SUBSET Ids
      BY <1>5
    <3>2. LET shown == SelectIn(win, to, phase) IN
          /\ shown \in Windows /\ Fits(shown, store, phase, FALSE)
          /\ win.edit => shown.pane = win.pane /\ shown.edit
      BY <1>4, <1>5, <2>1, <2>2, <3>1, SelectInFacts
    <3> QED
      BY <3>2
  <2>4. win' = s
    BY <1>0, <1>2
  <2> HIDE DEF s
  <2>5. Follows(s, win', phase, phase')
    BY <1>0, <2>3, <2>4, WindowSame
  <2> QED
    BY <1>0, <1>5, <2>3, <2>5, NoQuestion, FollowsWindowed DEF Fits
<1>11. RunSound
  BY <1>0, NothingRan
<1>12. TypeOK'
  <2>1. DiskTyped'
    BY <1>0, <1>5, <1>6 DEF LInv, TypeOK, DiskTyped, Versioned
  <2> QED
    BY <1>0, <1>5, <1>7, <1>9, <1>10, <1>11, <2>1
    DEF LInv, RunSound, Windowed, TypeOK, VmsTyped, WindowTyped, PhaseMap
<1>13. FoldersFit'
  <2>1. ASSUME NEW x \in (store \cap Present(folder)) \ (fileEvents' \cup went)
        PROVE  x \in watched' /\ args'[x] = folder'[x].args
    <3>1. x \in watched /\ args[x] = folder[x].args
      BY <1>0, <2>1 DEF LInv, FoldersFit
    <3>2. x # to /\ x \in Ids
      BY <1>0, <1>2, <1>5, <3>1, <2>1
    <3> QED
      BY <1>0, <1>2, <1>6, <1>7, <3>1, <3>2
  <2> QED
    BY <1>0, <1>8, <2>1 DEF LInv, FoldersFit
<1>14. CloneFits'
  BY <1>0 DEF CloneFits, NoClone
<1>15. WholeFits'
  <2> SUFFICES ASSUME NEW x \in Ids \ halves
               PROVE  /\ folder'[x].args \notin {"gone", "bare"} => folder'[x].disks = NumDisks
                      /\ folder'[x].args = "bare" => x = clone'.to
    BY <1>0 DEF WholeFits
  <2>1. CASE x = to
    BY <1>4, <1>6, <2>1
  <2>2. CASE x # to
    BY <1>2, <1>6, <2>2 DEF LInv, WholeFits
  <2> QED
    BY <2>1, <2>2
<1> QED
  BY <1>10, <1>11, <1>12, <1>13, <1>14, <1>15 DEF LInv, RunSound, Windowed

(* The manager that comes back: what it makes of the folders f.              *)
LEMMA ManagerKeeps ==
    ASSUME NEW f \in Versioned, Manager(f), folder' = f,
           qemu' \subseteq Ids, halves' \subseteq Ids, byHand' \in Nat, restarts' \in Nat,
           \A id \in Ids \ halves' :
              /\ f[id].args \notin {"gone", "bare"} => f[id].disks = NumDisks
              /\ f[id].args # "bare"
    PROVE  LInv'
<1> DEFINE there == Present(f)
           phases == [id \in Ids |-> IF id \in there \cap qemu THEN "Attach" ELSE "Idle"]
<1>1. /\ store' = there
      /\ args' = [id \in Ids |-> IF id \in there THEN f[id].args ELSE "empty"]
      /\ phase' = phases
      /\ asked' = {}
      /\ dirEvent' = FALSE /\ fileEvents' = {} /\ watched' = there
      /\ \E id \in IF there = {} THEN {None} ELSE there :
            win' = [cur |-> id, pane |-> id, edit |-> FALSE, leaving |-> FALSE,
                    buttons |-> ButtonsFor(id, phases)]
      /\ dialog' = NoDialog /\ box' = NoBox /\ askingUsb' = {}
      /\ starting' = {} /\ endedFrom' = {}
      /\ clone' = NoClone /\ went' = {}
  BY DEF Manager
<1>2. /\ there \subseteq Ids /\ None \notin Ids
      /\ \A id \in there : f[id].args \in Versions \ {"gone"}
  BY LibraryAssumption DEF Present, Versioned
<1>3. /\ phases \in PhaseMap
      /\ \A id \in Ids : phases[id] # "Idle" => id \in there /\ phases[id] = "Attach"
  BY DEF PhaseMap, Phases
<1> HIDE DEF there, phases
<1>4. PICK id \in there \cup {None} :
        win' = [cur |-> id, pane |-> id, edit |-> FALSE, leaving |-> FALSE,
                buttons |-> ButtonsFor(id, phases)]
  BY <1>1
<1>5. /\ win' \in Windows /\ win'.cur = id /\ win'.pane = id /\ win'.edit = FALSE
      /\ win'.buttons = ButtonsFor(id, phases)
  <2>1. ButtonsFor(id, phases) \in {"NoVm", "Stopped", "Starting", "Running", "Stopping"}
    BY <1>2, <1>3, ButtonsTyped
  <2> HIDE DEF ButtonsFor
  <2> QED
    BY <1>2, <1>4, <2>1 DEF Windows
<1>6. Present(folder') = there
  BY DEF there
<1>7. DiskTyped'
  BY <1>1, <1>2 DEF DiskTyped, Versioned
<1>8. args' \in [Ids -> Versions \ {"gone"}] /\ \A x \in there : args'[x] = f[x].args
  BY <1>1, <1>2 DEF Versions
<1>9. /\ NoDialog \in Dialogs /\ NoBox \in Boxes /\ NoClone \in Clones /\ NoClone.to = None
      /\ NoDialog.kind = "none" /\ NoDialog.vm = None /\ NoBox.cause = "none"
  BY DEF NoDialog, NoBox, NoClone, Dialogs, Boxes, Clones
<1>10. TypeOK'
  BY <1>1, <1>2, <1>3, <1>5, <1>7, <1>8, <1>9 DEF TypeOK, VmsTyped, WindowTyped, PhaseMap
<1>11. FoldersFit'
  BY <1>1, <1>6, <1>8 DEF FoldersFit
<1>12. WinFits'
  <2>1. Fits(win', store', phase', dialog'.kind = "leave")
    BY <1>1, <1>4, <1>5 DEF Fits
  <2> QED
    BY <2>1 DEF WinFits
<1>13. DialogFits'
  <2>1. Asks(dialog', store', win')
    BY <1>1, <1>9 DEF Asks
  <2> QED
    BY <2>1 DEF DialogFits
<1>14. RunFits'
  <2>1. Notes(store', phase', starting', endedFrom')
    BY <1>1, <1>3 DEF Notes
  <2>2. TellsWhy'
    BY <1>1, <1>9 DEF TellsWhy
  <2> QED
    BY <2>1, <2>2 DEF RunFits
<1>15. CloneFits'
  BY <1>1 DEF CloneFits, NoClone
<1>16. WholeFits'
  BY <1>1, <1>2, <1>8 DEF WholeFits
<1> QED
  BY <1>10, <1>11, <1>12, <1>13, <1>14, <1>15, <1>16 DEF LInv

LEMMA RestartKeeps ==
    ASSUME LInv, Closed \/ Killed
    PROVE  LInv' /\ KeepsEdits
<1>0. /\ folder \in Versioned /\ qemu \subseteq Ids /\ halves \subseteq Ids
      /\ byHand \in Nat /\ restarts \in Nat /\ None \notin Ids
  BY LibraryAssumption DEF LInv, TypeOK, DiskTyped, VmsTyped, Versioned
<1>1. restarts' = restarts + 1 /\ UNCHANGED <<qemu, byHand>>
  BY DEF Closed, Killed
<1>2. KeepsEdits
  <2>1. dialog'.kind # "cloning"
    BY DEF Closed, Killed, Manager, NoDialog
  <2> QED
    BY <1>0, <1>1, <2>1 DEF KeepsEdits
<1>3. \A x \in Ids \ halves :
        /\ folder[x].args \notin {"gone", "bare"} => folder[x].disks = NumDisks
        /\ folder[x].args = "bare" => x = clone.to
  BY DEF LInv, WholeFits
<1>4. CASE Killed
  <2>1. Manager(folder) /\ folder' = folder /\ halves' = halves \cup ({clone.to} \ {None})
    BY <1>4 DEF Killed
  <2>2. halves' \subseteq Ids
    BY <1>0, <2>1 DEF LInv, TypeOK, WindowTyped, Clones
  <2>3. \A x \in Ids \ halves' :
          /\ folder[x].args \notin {"gone", "bare"} => folder[x].disks = NumDisks
          /\ folder[x].args # "bare"
    BY <1>0, <1>3, <2>1
  <2> QED
    BY <1>0, <1>1, <1>2, <2>1, <2>2, <2>3, ManagerKeeps
<1>5. CASE Closed
  <2>1. /\ CanAct /\ Manager(folder') /\ UNCHANGED halves
        /\ \/ UNCHANGED folder
           \/ /\ win.edit /\ Writable(win.pane)
              /\ folder' = [folder EXCEPT ![win.pane].args = Changed]
    BY <1>5 DEF Closed
  <2>2. clone.to = None
    BY <2>1, MayAct DEF NoClone
  <2>3. /\ folder' \in Versioned
        /\ \A x \in Ids \ halves :
             /\ folder'[x].args \notin {"gone", "bare"} => folder'[x].disks = NumDisks
             /\ folder'[x].args # "bare"
    <3>1. CASE UNCHANGED folder
      BY <1>0, <1>3, <2>2, <3>1
    <3>2. CASE /\ win.edit /\ Writable(win.pane)
               /\ folder' = [folder EXCEPT ![win.pane].args = Changed]
      <4>1. PICK id \in Ids : id = win.pane
        BY <1>0, <2>1, <3>2, MayAct DEF LInv, TypeOK, VmsTyped
      <4>2. Changed \in Versions /\ Changed \notin {"gone", "bare"} /\ folder[id].args # "gone"
        BY <3>2, <4>1 DEF Versions, Full, Changed, Writable
      <4>3. folder' = [folder EXCEPT ![id].args = Changed]
        BY <3>2, <4>1
      <4>4. /\ folder' \in Versioned /\ folder'[id].args = Changed
            /\ folder'[id].disks = folder[id].disks
            /\ \A x \in Ids \ {id} : folder'[x] = folder[x]
        BY <1>0, <4>2, <4>3 DEF Versioned
      <4>5. ASSUME NEW x \in Ids \ halves
            PROVE  /\ folder'[x].args \notin {"gone", "bare"} => folder'[x].disks = NumDisks
                   /\ folder'[x].args # "bare"
        <5>1. CASE x = id
          BY <1>0, <1>3, <2>2, <4>2, <4>4, <4>5, <5>1
        <5>2. CASE x # id
          BY <1>0, <1>3, <2>2, <4>4, <4>5, <5>2
        <5> QED
          BY <5>1, <5>2
      <4> QED
        BY <4>4, <4>5
    <3> QED
      BY <2>1, <3>1, <3>2
  <2>4. LInv'
    <3> DEFINE f == folder'
    <3>1. f \in Versioned /\ Manager(f) /\ folder' = f
      BY <2>1, <2>3
    <3>2. qemu' \subseteq Ids /\ halves' \subseteq Ids /\ byHand' \in Nat /\ restarts' \in Nat
      BY <1>0, <1>1, <2>1
    <3>3. \A x \in Ids \ halves' :
             /\ f[x].args \notin {"gone", "bare"} => f[x].disks = NumDisks
             /\ f[x].args # "bare"
      BY <2>1, <2>3
    <3> HIDE DEF f
    <3> QED
      BY <3>1, <3>2, <3>3, ManagerKeeps
  <2> QED
    BY <1>2, <2>4
<1> QED
  BY <1>4, <1>5

-----------------------------------------------------------------------------
(* The list, when VMs come and go                                           *)

(* What VmStore::reload leaves, with the folders f                          *)
LEMMA ReloadFacts ==
    ASSUME LInv, NEW f \in Versioned, Reload(f, win)
    PROVE  /\ store' \subseteq Ids /\ args' \in [Ids -> Versions \ {"gone"}]
           /\ phase' \in PhaseMap /\ asked' \subseteq Ids /\ starting' \subseteq Ids
           /\ endedFrom' \subseteq Ids /\ watched' \subseteq Ids /\ went' \subseteq Ids
           /\ win' \in Windows
           /\ Fits(win', store', phase', dialog.kind = "leave") /\ Asks(dialog, store', win')
           /\ win.edit => win'.pane = win.pane \/ win.pane \notin store'
           /\ Notes(store', phase', starting', endedFrom')
           /\ went' \subseteq store' /\ store' = Present(f) \cup went'
           /\ \A x \in store' :
                \/ x \in Present(f) \ store /\ args'[x] = f[x].args /\ x \in watched'
                \/ /\ x \in store /\ args'[x] = args[x] /\ (x \in watched => x \in watched')
                   /\ x \in went => x \in went'
           /\ \A x \in Ids : ~IsActive(x) => phase'[x] \in {"Idle", "Attach"}
           /\ store \cap Present(f) \subseteq store'
<1> DEFINE gone   == {x \in store \ Present(f) : ~IsActive(x)}
           new    == Present(f) \ store
           phases == [x \in Ids |-> IF x \in new /\ x \in qemu THEN "Attach"
                                    ELSE IF x \in gone \cup new THEN "Idle" ELSE phase[x]]
<1>1. /\ dialog.vm \notin gone
      /\ store' = (store \ gone) \cup new
      /\ args' = [x \in Ids |-> IF x \in new THEN f[x].args
                                ELSE IF x \in gone THEN "empty" ELSE args[x]]
      /\ phase' = phases
      /\ asked' = asked \ (gone \cup new)
      /\ win' \in Relisted(win, gone, new, phases)
      /\ starting' = starting \ gone
      /\ endedFrom' = endedFrom \ gone
      /\ watched' = (watched \ gone) \cup new
      /\ went' = (went \ gone) \cup {x \in store \ Present(f) : IsActive(x)}
  BY DEF Reload
<1>2. /\ store \subseteq Ids /\ args \in [Ids -> Versions \ {"gone"}] /\ phase \in PhaseMap
      /\ asked \subseteq Ids /\ starting \subseteq Ids /\ endedFrom \subseteq Ids
      /\ watched \subseteq Ids /\ went \subseteq store /\ win \in Windows /\ dialog \in Dialogs
      /\ endedFrom \subseteq store
  BY DEF LInv, TypeOK, DiskTyped, VmsTyped, WindowTyped, PhaseMap, FoldersFit, RunFits, Notes
<1>3. /\ gone \subseteq store /\ gone \cap Present(f) = {} /\ new \subseteq Present(f)
      /\ new \cap store = {} /\ Present(f) \subseteq Ids
      /\ \A x \in gone : ~IsActive(x)
      /\ \A x \in store \ Present(f) : IsActive(x) \/ x \in gone
      /\ \A x \in Present(f) : x \in store \/ x \in new
      /\ \A x \in Present(f) : f[x].args \in Versions \ {"gone"}
  BY DEF Present, Versioned
<1>4. /\ phases \in PhaseMap
      /\ \A x \in Ids \ (gone \cup new) : phases[x] = phase[x]
      /\ \A x \in gone : x \in Ids => phases[x] = "Idle"
      /\ \A x \in new : x \in Ids => phases[x] \in {"Idle", "Attach"}
  BY <1>2, <1>3 DEF PhaseMap, Phases
<1>5. /\ args' \in [Ids -> Versions \ {"gone"}]
      /\ \A x \in new : args'[x] = f[x].args
      /\ \A x \in Ids \ (gone \cup new) : args'[x] = args[x]
  <2>1. "empty" \in Versions \ {"gone"}
    BY DEF Versions
  <2> HIDE DEF gone, new, phases
  <2> QED
    BY <1>1, <1>2, <1>3, <2>1
<1>6. /\ went' \subseteq store' /\ store' = Present(f) \cup went'
  <2> DEFINE stay == {x \in store \ Present(f) : IsActive(x)}
  <2>1. stay \subseteq store /\ stay \cap gone = {} /\ store \ Present(f) \subseteq stay \cup gone
    OBVIOUS
  <2>2. went' = (went \ gone) \cup stay /\ store' = (store \ gone) \cup new
    BY <1>1
  <2> HIDE DEF stay, gone, new, phases
  <2> QED
    BY <1>2, <1>3, <2>1, <2>2
<1>7. went \ gone \subseteq went'
  BY <1>1
<1> HIDE DEF gone, new, phases
<1>8. /\ win' \in Windows
      /\ Fits(win', store', phase', dialog.kind = "leave") /\ Asks(dialog, store', win')
      /\ win.edit => win'.pane = win.pane \/ win.pane \notin store'
  <2>1. \A x \in store \ gone : StateOf(phases[x]) = StateOf(phase[x])
    BY <1>2, <1>3, <1>4
  <2>2. Fits(win, store, phase, dialog.kind = "leave") /\ Asks(dialog, store, win)
    BY DEF LInv, WinFits, DialogFits
  <2>3. gone \in SUBSET store /\ new \in SUBSET Ids /\ new \cap store = {}
    BY <1>3
  <2>4. PICK v \in Relisted(win, gone, new, phases) : win' = v
    BY <1>1
  <2>5. /\ v \in Windows
        /\ Fits(v, (store \ gone) \cup new, phases, dialog.kind = "leave")
        /\ Asks(dialog, (store \ gone) \cup new, v)
        /\ win.edit => (v.pane = win.pane /\ v.edit) \/ win.pane \notin (store \ gone) \cup new
    <3>1. dialog.vm \notin gone /\ phases \in PhaseMap /\ phase \in PhaseMap
          /\ win \in Windows /\ dialog \in Dialogs /\ store \subseteq Ids
      BY <1>1, <1>2, <1>4
    <3>2. Relists(win, dialog, phase, gone, new, phases)
      BY <2>1, <2>2, <2>3, <3>1 DEF Relists
    <3> QED
      BY <2>4, <3>2, RelistedFacts
  <2> QED
    BY <1>1, <2>4, <2>5
<1>9. Notes(store', phase', starting', endedFrom')
  <2>1. Notes(store, phase, starting, endedFrom)
    BY DEF LInv, RunFits
  <2>2. endedFrom' \subseteq store'
    BY <1>1, <1>2
  <2>3. ASSUME NEW x \in Ids
        PROVE  /\ phase'[x] # "Idle" => x \in store'
               /\ phase'[x] \in {"Running", "Stopping"} => x \notin starting'
               /\ phase'[x] = "Starting" => x \in starting'
               /\ phase'[x] = "Attach" => x \in starting' \/ x \notin endedFrom'
    <3>1. CASE x \in gone
      BY <1>1, <1>4, <3>1
    <3>2. CASE x \in new
      <4>1. x \notin endedFrom' /\ x \in store' /\ phase'[x] \in {"Idle", "Attach"}
        BY <1>1, <1>2, <1>3, <1>4, <3>2
      <4> QED
        BY <4>1
    <3>3. CASE x \notin gone \cup new
      <4>1. /\ phase'[x] = phase[x]
            /\ x \in store' <=> x \in store
            /\ x \in starting' <=> x \in starting
            /\ x \in endedFrom' <=> x \in endedFrom
        BY <1>1, <1>4, <3>3
      <4> QED
        BY <2>1, <4>1 DEF Notes
    <3> QED
      BY <3>1, <3>2, <3>3
  <2> QED
    BY <2>2, <2>3 DEF Notes
<1>10. ASSUME NEW x \in store'
       PROVE  \/ x \in Present(f) \ store /\ args'[x] = f[x].args /\ x \in watched'
              \/ /\ x \in store /\ args'[x] = args[x] /\ (x \in watched => x \in watched')
                 /\ x \in went => x \in went'
  <2>1. CASE x \in new
    BY <1>1, <1>3, <1>5, <2>1
  <2>2. CASE x \notin new
    <3>1. x \in store \ gone /\ x \in Ids
      BY <1>1, <1>2, <2>2
    <3> QED
      BY <1>1, <1>5, <1>7, <2>2, <3>1
  <2> QED
    BY <2>1, <2>2
<1>11. ASSUME NEW x \in Ids, ~IsActive(x) PROVE phase'[x] \in {"Idle", "Attach"}
  <2>1. CASE x \in gone \cup new
    BY <1>1, <1>4, <2>1
  <2>2. CASE x \notin gone \cup new
    <3>1. phase'[x] = phase[x] /\ phase[x] \in Phases
      BY <1>1, <1>2, <1>4, <2>2 DEF PhaseMap
    <3> QED
      BY <1>11, <3>1 DEF IsActive, State, StateOf, Phases
  <2> QED
    BY <2>1, <2>2
<1>12. store \cap Present(f) \subseteq store'
  BY <1>1, <1>3
<1>13. /\ store' \subseteq Ids /\ asked' \subseteq Ids /\ starting' \subseteq Ids
       /\ endedFrom' \subseteq Ids /\ watched' \subseteq Ids /\ went' \subseteq Ids
  <2>1. store' \subseteq Ids
    BY <1>1, <1>2, <1>3
  <2> QED
    BY <1>1, <1>2, <1>3, <1>6, <2>1
<1> QED
  BY <1>1, <1>4, <1>5, <1>6, <1>8, <1>9, <1>10, <1>11, <1>12, <1>13

(* A reload, with the clone as it is or undone.                             *)
LEMMA ReloadKeeps ==
    ASSUME LInv, NEW f \in Versioned, Reload(f, win), folder' = f,
           dirEvent' \in BOOLEAN, fileEvents \subseteq fileEvents', fileEvents' \subseteq Ids,
           UNCHANGED <<qemu, box, askingUsb, byHand, restarts, halves>>,
           \/ f = folder /\ clone' = clone /\ dialog' = dialog
           \/ /\ clone # NoClone /\ f = [folder EXCEPT ![clone.to] = Gone]
              /\ clone' = NoClone /\ clone.to \in fileEvents'
              /\ dialog' \in {dialog, NoDialog}
    PROVE  LInv' /\ KeepsEdits
<1>1. /\ store' \subseteq Ids /\ args' \in [Ids -> Versions \ {"gone"}]
      /\ phase' \in PhaseMap /\ asked' \subseteq Ids /\ starting' \subseteq Ids
      /\ endedFrom' \subseteq Ids /\ watched' \subseteq Ids /\ went' \subseteq Ids
      /\ win' \in Windows
      /\ Fits(win', store', phase', dialog.kind = "leave") /\ Asks(dialog, store', win')
      /\ win.edit => win'.pane = win.pane \/ win.pane \notin store'
      /\ Notes(store', phase', starting', endedFrom')
      /\ went' \subseteq store' /\ store' = Present(f) \cup went'
      /\ \A x \in store' :
           \/ x \in Present(f) \ store /\ args'[x] = f[x].args /\ x \in watched'
           \/ /\ x \in store /\ args'[x] = args[x] /\ (x \in watched => x \in watched')
              /\ x \in went => x \in went'
      /\ \A x \in Ids : ~IsActive(x) => phase'[x] \in {"Idle", "Attach"}
      /\ store \cap Present(f) \subseteq store'
  BY ReloadFacts
<1>2. /\ folder \in Versioned /\ dialog \in Dialogs /\ clone \in Clones /\ store \subseteq Ids
      /\ qemu \subseteq Ids /\ askingUsb \subseteq Ids /\ box \in Boxes /\ halves \subseteq Ids
      /\ byHand \in Nat /\ restarts \in Nat
  BY DEF LInv, TypeOK, DiskTyped, VmsTyped, WindowTyped, Versioned
<1>3. /\ \A x \in Present(f) : x \in Present(folder) /\ f[x] = folder[x]
      /\ \A x \in Ids : x \in Present(f) \/ x \notin Present(folder) \/ x = clone.to
      /\ clone' # clone => clone.to \notin Present(f)
  <2>1. CASE f = folder /\ clone' = clone
    BY <2>1 DEF Present
  <2>2. CASE clone # NoClone /\ f = [folder EXCEPT ![clone.to] = Gone]
    <3>1. PICK to \in Ids : to = clone.to
      BY <2>2, CloneFacts
    <3>2. f[to].args = "gone" /\ \A x \in Ids \ {to} : f[x] = folder[x]
      BY <1>2, <2>2, <3>1 DEF Versioned, Gone
    <3> QED
      BY <3>1, <3>2 DEF Present
  <2> QED
    BY <2>1, <2>2
<1>4. Present(folder') = Present(f) /\ Present(f) \subseteq Ids
  BY DEF Present
<1>5. NoDialog \in Dialogs /\ NoDialog.kind = "none" /\ NoClone \in Clones /\ NoClone.to = None
  BY DEF NoDialog, Dialogs, NoClone, Clones
<1>6. TypeOK'
  <2>1. DiskTyped'
    BY <1>1, <1>2 DEF DiskTyped, Versioned
  <2> QED
    BY <1>1, <1>2, <1>5, <2>1 DEF TypeOK, VmsTyped, WindowTyped, PhaseMap
<1>7. FoldersFit'
  <2>1. ASSUME NEW x \in (store' \cap Present(f)) \ (fileEvents' \cup went')
        PROVE  x \in watched' /\ args'[x] = folder'[x].args
    <3>1. CASE x \in Present(f) \ store /\ args'[x] = f[x].args /\ x \in watched'
      BY <3>1
    <3>2. CASE /\ x \in store /\ args'[x] = args[x] /\ (x \in watched => x \in watched')
               /\ x \in went => x \in went'
      <4>1. x \in (store \cap Present(folder)) \ (fileEvents \cup went)
        BY <1>3, <2>1, <3>2
      <4>2. x \in watched /\ args[x] = folder[x].args
        BY <4>1 DEF LInv, FoldersFit
      <4> QED
        BY <1>3, <2>1, <3>2, <4>2
    <3> QED
      BY <1>1, <2>1, <3>1, <3>2
  <2> QED
    BY <1>1, <1>4, <2>1 DEF FoldersFit
<1>8. WinFits' /\ DialogFits'
  <2>1. CASE dialog' = dialog
    BY <1>1, <2>1 DEF WinFits, DialogFits
  <2>2. CASE dialog' # dialog
    <3>1. dialog' = NoDialog /\ dialog.kind = "cloning"
      BY <2>2, CloneFacts
    <3>2. Fits(win', store', phase', dialog'.kind = "leave")
      BY <1>1, <1>5, <3>1 DEF Fits
    <3>3. Asks(dialog', store', win')
      BY <1>1, <3>1, NoQuestion
    <3> QED
      BY <3>2, <3>3 DEF WinFits, DialogFits
  <2> QED
    BY <2>1, <2>2
<1>9. RunFits'
  <2>1. TellsWhy'
    BY DEF LInv, RunFits, TellsWhy
  <2> QED
    BY <1>1, <2>1 DEF RunFits
<1>10. CloneFits'
  <2>1. CASE clone' = NoClone
    BY <2>1 DEF CloneFits, NoClone
  <2>2. CASE clone' # NoClone
    <3>1. f = folder /\ clone' = clone /\ dialog' = dialog /\ clone # NoClone
      BY <2>2
    <3>2. clone.to \in store' /\ clone.from \in Ids
      BY <1>1, <3>1, CloneFacts
    <3> QED
      BY <3>1, <3>2 DEF LInv, CloneFits, NoClone
  <2> QED
    BY <2>1, <2>2
<1>11. WholeFits'
  <2> SUFFICES ASSUME NEW x \in Ids \ halves
               PROVE  /\ f[x].args \notin {"gone", "bare"} => f[x].disks = NumDisks
                      /\ f[x].args = "bare" => x = clone'.to
    BY <1>4 DEF WholeFits
  <2>1. /\ folder[x].args \notin {"gone", "bare"} => folder[x].disks = NumDisks
        /\ folder[x].args = "bare" => x = clone.to
    BY DEF LInv, WholeFits
  <2>2. CASE x \in Present(f)
    BY <1>3, <2>1, <2>2
  <2>3. CASE x \notin Present(f)
    BY <2>3 DEF Present
  <2> QED
    BY <2>2, <2>3
<1>12. KeepsEdits
  <2>1. dialog'.kind = "cloning" => dialog.kind # "none"
    BY <1>5
  <2> QED
    BY <1>1, <2>1 DEF KeepsEdits
<1> QED
  BY <1>6, <1>7, <1>8, <1>9, <1>10, <1>11, <1>12 DEF LInv

(* A VM that the manager makes                                              *)
LEMMA CreatedFacts ==
    ASSUME LInv, NEW id \in Ids, NEW v \in Versions \ {"gone"}, id \notin store,
           UNCHANGED <<starting, endedFrom>>, CreatedIn(id, v)
    PROVE  /\ store' = store \cup {id} /\ args' = [args EXCEPT ![id] = v]
           /\ phase' \in PhaseMap /\ asked' \subseteq Ids /\ dirEvent' = TRUE
           /\ \A x \in Ids \ {id} : phase'[x] = phase[x]
           /\ Notes(store', phase', starting', endedFrom')
           /\ fileEvents' = IF v = "bare" THEN fileEvents ELSE fileEvents \cup {id}
           /\ watched' = IF v = "bare" THEN watched \cup {id} ELSE watched
           /\ \E w \in Windows :
                /\ Fits(w, store', phase', dialog.kind = "leave") /\ Asks(dialog, store', w)
                /\ win.edit => w.pane = win.pane /\ w.edit
                /\ w.edit => win.edit
                /\ win' = IF v = "bare" THEN w ELSE SelectIn(w, id, phase')
<1> DEFINE phases == [phase EXCEPT ![id] = IF id \in qemu THEN "Attach" ELSE "Idle"]
<1>1. /\ store' = store \cup {id} /\ args' = [args EXCEPT ![id] = v]
      /\ phase' = phases /\ asked' = asked \ {id} /\ dirEvent' = TRUE
      /\ \E w \in Relisted(win, {}, {id}, phases) :
            win' = IF v = "bare" THEN w ELSE SelectIn(w, id, phases)
      /\ fileEvents' = IF v = "bare" THEN fileEvents ELSE fileEvents \cup {id}
      /\ watched' = IF v = "bare" THEN watched \cup {id} ELSE watched
  BY DEF CreatedIn
<1>2. /\ store \subseteq Ids /\ phase \in PhaseMap /\ asked \subseteq Ids
      /\ win \in Windows /\ dialog \in Dialogs /\ endedFrom \subseteq store
      /\ Notes(store, phase, starting, endedFrom)
  BY DEF LInv, TypeOK, VmsTyped, WindowTyped, PhaseMap, RunFits, Notes
<1>3. PICK p \in {"Attach", "Idle"} : phases = [phase EXCEPT ![id] = p]
  OBVIOUS
<1> HIDE DEF phases
<1>4. /\ p \in Phases /\ phases \in PhaseMap /\ \A x \in Ids \ {id} : phases[x] = phase[x]
  BY <1>2, <1>3 DEF PhaseMap, Phases
<1>5. Notes(store', phase', starting', endedFrom')
  <2>1. Notes(store', phase, starting, endedFrom)
    BY <1>1, <1>2 DEF Notes
  <2>2. id \notin endedFrom /\ id \in store'
    BY <1>1, <1>2
  <2>3. Notes(store', [phase EXCEPT ![id] = p], starting, endedFrom)
    BY <1>2, <1>4, <2>1, <2>2, NotesKept
  <2> QED
    BY <1>1, <1>3, <2>3
<1>6. Relists(win, dialog, phase, {}, {id}, phases)
  <2>1. Fits(win, store, phase, dialog.kind = "leave") /\ Asks(dialog, store, win)
    BY DEF LInv, WinFits, DialogFits
  <2>2. \A x \in store : StateOf(phases[x]) = StateOf(phase[x])
    BY <1>2, <1>4
  <2> QED
    BY <1>2, <1>4, <2>1, <2>2 DEF Relists
<1>7. PICK w \in Relisted(win, {}, {id}, phases) :
        win' = IF v = "bare" THEN w ELSE SelectIn(w, id, phases)
  BY <1>1
<1>8. /\ w \in Windows
      /\ Fits(w, (store \ {}) \cup {id}, phases, dialog.kind = "leave")
      /\ Asks(dialog, (store \ {}) \cup {id}, w)
      /\ win.edit => (w.pane = win.pane /\ w.edit) \/ win.pane \notin (store \ {}) \cup {id}
      /\ w.edit => win.edit
  BY <1>6, RelistedFacts
<1>9. (store \ {}) \cup {id} = store' /\ (win.edit => win.pane \in store)
  BY <1>1 DEF LInv, WinFits, Fits
<1>10. \E x \in Windows :
          /\ Fits(x, store', phase', dialog.kind = "leave") /\ Asks(dialog, store', x)
          /\ win.edit => x.pane = win.pane /\ x.edit
          /\ x.edit => win.edit
          /\ win' = IF v = "bare" THEN x ELSE SelectIn(x, id, phase')
  <2>1. /\ Fits(w, store', phase', dialog.kind = "leave") /\ Asks(dialog, store', w)
        /\ win' = IF v = "bare" THEN w ELSE SelectIn(w, id, phase')
    BY <1>1, <1>7, <1>8, <1>9
  <2>2. win.edit => w.pane = win.pane /\ w.edit
    BY <1>8, <1>9
  <2> QED
    BY <1>8, <2>1, <2>2
<1>11. asked' \subseteq Ids
  BY <1>1, <1>2
<1> QED
  BY <1>1, <1>4, <1>5, <1>10, <1>11

(* The folders after it                                                     *)
LEMMA CreatedKeeps ==
    ASSUME LInv, NEW id \in Ids, NEW v \in Versions \ {"gone"}, NEW n \in Nat, Free(id),
           folder' = [folder EXCEPT ![id] = [args |-> v, disks |-> n]],
           UNCHANGED <<byHand, restarts, went, halves>>,
           clone = NoClone, clone' \in Clones,
           IF v = "bare" THEN clone'.to = id ELSE n = NumDisks /\ UNCHANGED clone,
           store' = store \cup {id}, args' = [args EXCEPT ![id] = v], dirEvent' = TRUE,
           fileEvents' = IF v = "bare" THEN fileEvents ELSE fileEvents \cup {id},
           watched' = IF v = "bare" THEN watched \cup {id} ELSE watched
    PROVE  DiskTyped' /\ args' \in [Ids -> Versions \ {"gone"}] /\ FoldersFit' /\ WholeFits'
<1>1. /\ folder \in Versioned /\ args \in [Ids -> Versions \ {"gone"}] /\ store \subseteq Ids
      /\ fileEvents \subseteq Ids /\ watched \subseteq Ids /\ went \subseteq store
      /\ None \notin Ids /\ clone.to = None /\ id \notin store /\ id \notin Present(folder)
  BY LibraryAssumption
  DEF LInv, TypeOK, DiskTyped, VmsTyped, Versioned, FoldersFit, NoClone, Free, Gone, Present
<1>2. /\ folder' \in Versioned /\ folder'[id].args = v /\ folder'[id].disks = n
      /\ \A x \in Ids \ {id} : folder'[x] = folder[x]
  <2> DEFINE r == [args |-> v, disks |-> n]
  <2>1. r \in [args : Versions, disks : Nat] /\ r.args = v /\ r.disks = n
    OBVIOUS
  <2>2. folder' = [folder EXCEPT ![id] = r]
    OBVIOUS
  <2> HIDE DEF r
  <2> QED
    BY <1>1, <2>1, <2>2 DEF Versioned
<1>3. /\ args' \in [Ids -> Versions \ {"gone"}] /\ args'[id] = v
      /\ \A x \in Ids \ {id} : args'[x] = args[x]
  BY <1>1
<1>4. \A x \in Ids \ {id} : x \in Present(folder') <=> x \in Present(folder)
  BY <1>2 DEF Present
<1>5. DiskTyped'
  BY <1>1, <1>2 DEF LInv, TypeOK, DiskTyped, Versioned
<1>6. FoldersFit'
  <2>1. ASSUME NEW x \in (store' \cap Present(folder')) \ (fileEvents' \cup went')
        PROVE  x \in watched' /\ args'[x] = folder'[x].args
    <3>1. CASE x = id
      BY <1>2, <1>3, <2>1, <3>1
    <3>2. CASE x # id
      <4>1. x \in (store \cap Present(folder)) \ (fileEvents \cup went)
        BY <1>1, <1>4, <2>1, <3>2
      <4>2. x \in watched /\ args[x] = folder[x].args /\ x \in Ids
        BY <1>1, <4>1 DEF LInv, FoldersFit
      <4> QED
        BY <1>2, <1>3, <3>2, <4>2
    <3> QED
      BY <3>1, <3>2
  <2> QED
    BY <1>1, <2>1 DEF FoldersFit
<1>7. WholeFits'
  <2> SUFFICES ASSUME NEW x \in Ids \ halves
               PROVE  /\ folder'[x].args \notin {"gone", "bare"} => folder'[x].disks = NumDisks
                      /\ folder'[x].args = "bare" => x = clone'.to
    BY DEF WholeFits
  <2>1. /\ folder[x].args \notin {"gone", "bare"} => folder[x].disks = NumDisks
        /\ folder[x].args = "bare" => x = clone.to
    BY DEF LInv, WholeFits
  <2>2. CASE x = id
    BY <1>2, <2>2
  <2>3. CASE x # id
    BY <1>1, <1>2, <2>1, <2>3
  <2> QED
    BY <2>2, <2>3
<1> QED
  BY <1>3, <1>5, <1>6, <1>7

LEMMA NewVmKeeps ==
    ASSUME LInv, NEW id \in Ids, NewVm(id)
    PROVE  LInv' /\ KeepsEdits
<1>0. /\ CanAct /\ Free(id)
      /\ UNCHANGED <<qemu, dialog, box, askingUsb, clone, byHand, restarts, halves>>
  BY DEF NewVm
<1>1. /\ folder \in Versioned /\ fileEvents \subseteq Ids /\ clone \in Clones /\ store \subseteq Ids
      /\ qemu \subseteq Ids /\ box \in Boxes /\ askingUsb \subseteq Ids
      /\ starting \subseteq Ids /\ endedFrom \subseteq Ids
  BY DEF LInv, TypeOK, DiskTyped, VmsTyped, WindowTyped, Versioned
<1>2. CASE Reload(folder, win) /\ dirEvent' = TRUE /\ UNCHANGED <<folder, fileEvents>>
  BY <1>0, <1>1, <1>2, ReloadKeeps
<1>3. CASE /\ folder' = [folder EXCEPT ![id] = Whole(New)]
           /\ CreatedIn(id, New)
           /\ UNCHANGED <<starting, endedFrom, went>>
  <2>1. /\ New \in Versions \ {"gone"} /\ New # "bare" /\ NumDisks \in Nat /\ id \notin store
        /\ Whole(New) = [args |-> New, disks |-> NumDisks]
        /\ dialog.kind = "none" /\ dialog = NoDialog /\ clone = NoClone
    BY <1>0, LibraryAssumption, MayAct DEF Versions, Full, New, Free, Whole
  <2>2. /\ store' = store \cup {id} /\ args' = [args EXCEPT ![id] = New]
        /\ phase' \in PhaseMap /\ asked' \subseteq Ids /\ dirEvent' = TRUE
        /\ Notes(store', phase', starting', endedFrom')
        /\ fileEvents' = fileEvents \cup {id}
        /\ watched' = watched
        /\ \E w \in Windows :
                /\ Fits(w, store', phase', dialog.kind = "leave") /\ Asks(dialog, store', w)
                /\ win.edit => w.pane = win.pane /\ w.edit
                /\ w.edit => win.edit
                /\ win' = SelectIn(w, id, phase')
    <3>1. CreatedIn(id, New) /\ UNCHANGED <<starting, endedFrom>>
      BY <1>3
    <3> QED
      <4>1. /\ store' = store \cup {id} /\ args' = [args EXCEPT ![id] = New]
            /\ phase' \in PhaseMap /\ asked' \subseteq Ids /\ dirEvent' = TRUE
            /\ \A x \in Ids \ {id} : phase'[x] = phase[x]
            /\ Notes(store', phase', starting', endedFrom')
            /\ fileEvents' = IF New = "bare" THEN fileEvents ELSE fileEvents \cup {id}
            /\ watched' = IF New = "bare" THEN watched \cup {id} ELSE watched
            /\ \E w \in Windows :
                /\ Fits(w, store', phase', dialog.kind = "leave") /\ Asks(dialog, store', w)
                /\ win.edit => w.pane = win.pane /\ w.edit
                /\ w.edit => win.edit
                /\ win' = IF New = "bare" THEN w ELSE SelectIn(w, id, phase')
        BY ONLY LInv, id \in Ids, <2>1, <3>1, CreatedFacts, Zenon
      <4> QED
        BY ONLY <2>1, <4>1
  <2>3. PICK w \in Windows :
                /\ Fits(w, store', phase', dialog.kind = "leave") /\ Asks(dialog, store', w)
                /\ win.edit => w.pane = win.pane /\ w.edit
                /\ w.edit => win.edit
                /\ win' = SelectIn(w, id, phase')
    BY <2>2
  <2>4. /\ win' \in Windows /\ Fits(win', store', phase', FALSE)
        /\ win.edit => win'.pane = win.pane
    <3>1. PICK S \in SUBSET Ids, phases \in PhaseMap : S = store' /\ phases = phase'
      BY <1>1, <2>2
    <3>2. Fits(w, S, phases, TRUE) /\ (~w.leaving /\ w.cur = id => w.pane = id) /\ id \in S
      BY <2>1, <2>2, <2>3, <3>1 DEF Fits
    <3>3. LET shown == SelectIn(w, id, phases) IN
          /\ shown \in Windows /\ Fits(shown, S, phases, FALSE)
          /\ w.edit => shown.pane = w.pane /\ shown.edit
      BY <3>2, SelectInFacts
    <3> QED
      BY <2>3, <3>1, <3>3
  <2>5. /\ DiskTyped' /\ args' \in [Ids -> Versions \ {"gone"}] /\ FoldersFit' /\ WholeFits'
    BY <1>0, <1>1, <1>3, <2>1, <2>2, CreatedKeeps
  <2>6. TypeOK'
    BY <1>0, <1>1, <1>3, <2>1, <2>2, <2>4, <2>5, NoQuestion
    DEF TypeOK, VmsTyped, WindowTyped, PhaseMap
  <2>7. WinFits' /\ DialogFits'
    <3>1. Asks(dialog', store', win')
      BY <1>0, <1>1, <2>1, <2>2, NoQuestion
    <3>2. Fits(win', store', phase', dialog'.kind = "leave")
      BY <1>0, <2>1, <2>4 DEF Fits
    <3> QED
      BY <3>1, <3>2 DEF WinFits, DialogFits
  <2>8. RunFits'
    <3>1. TellsWhy'
      BY <1>0 DEF LInv, RunFits, TellsWhy
    <3> QED
      BY <2>2, <3>1 DEF RunFits
  <2>9. CloneFits'
    BY <1>0, <2>1 DEF CloneFits, NoClone
  <2>10. KeepsEdits
    BY <1>0, <2>1, <2>4 DEF KeepsEdits
  <2> QED
    BY <2>5, <2>6, <2>7, <2>8, <2>9, <2>10 DEF LInv
<1> QED
  BY <1>2, <1>3 DEF NewVm

LEMMA CloneAcceptedKeeps ==
    ASSUME LInv, NEW to \in Ids, CloneAccepted(to)
    PROVE  LInv' /\ KeepsEdits
<1>0. /\ dialog.kind = "cloning" /\ clone = NoClone /\ ~IsActive(dialog.vm)
      /\ Free(to) /\ args[dialog.vm] \in Full
      /\ folder' = [folder EXCEPT ![to] = [args |-> "bare", disks |-> 0]]
      /\ CreatedIn(to, "bare")
      /\ clone' = [from |-> dialog.vm, to |-> to, args |-> args[dialog.vm], left |-> NumDisks]
      /\ UNCHANGED <<qemu, dialog, box, askingUsb, starting, endedFrom, byHand, restarts, went,
                     halves>>
  BY DEF CloneAccepted, MayCopy
<1>1. /\ folder \in Versioned /\ args \in [Ids -> Versions \ {"gone"}] /\ store \subseteq Ids
      /\ qemu \subseteq Ids /\ box \in Boxes /\ askingUsb \subseteq Ids /\ dialog \in Dialogs
      /\ starting \subseteq Ids /\ endedFrom \subseteq Ids
      /\ NumDisks \in Nat /\ NumDisks > 0 /\ None \notin Ids
  BY LibraryAssumption DEF LInv, TypeOK, DiskTyped, VmsTyped, WindowTyped, Versioned
<1>2. PICK from \in store : from = dialog.vm
  BY <1>0 DEF LInv, DialogFits, Asks
<1>3. to \notin store /\ "bare" \in Versions \ {"gone"}
  BY <1>0 DEF Free, Versions
<1>4. /\ clone' \in Clones /\ clone'.from = from /\ clone'.to = to
      /\ clone'.args = args[from] /\ clone'.left = NumDisks
  <2>1. clone' = [from |-> from, to |-> to, args |-> args[from], left |-> NumDisks]
    BY <1>0, <1>2
  <2>2. args[from] \in Versions \ {"gone"}
    BY <1>1
  <2> QED
    BY <1>1, <2>1, <2>2 DEF Clones
<1>5. /\ store' = store \cup {to} /\ args' = [args EXCEPT ![to] = "bare"]
      /\ phase' \in PhaseMap /\ asked' \subseteq Ids /\ dirEvent' = TRUE
      /\ \A x \in Ids \ {to} : phase'[x] = phase[x]
      /\ Notes(store', phase', starting', endedFrom')
      /\ fileEvents' = fileEvents /\ watched' = watched \cup {to}
      /\ win' \in Windows
      /\ Fits(win', store', phase', dialog.kind = "leave") /\ Asks(dialog, store', win')
      /\ win.edit => win'.pane = win.pane
  BY <1>0, <1>3, CreatedFacts
<1>6. DiskTyped' /\ args' \in [Ids -> Versions \ {"gone"}] /\ FoldersFit' /\ WholeFits'
  BY <1>0, <1>3, <1>4, <1>5, CreatedKeeps
<1>7. TypeOK'
  BY <1>0, <1>1, <1>4, <1>5, <1>6 DEF TypeOK, VmsTyped, WindowTyped, PhaseMap
<1>8. WinFits' /\ DialogFits'
  BY <1>0, <1>5 DEF WinFits, DialogFits
<1>9. RunFits'
  <2>1. TellsWhy'
    BY <1>0 DEF LInv, RunFits, TellsWhy
  <2> QED
    BY <1>5, <2>1 DEF RunFits
<1>10. CloneFits'
  <2>1. folder'[to].args = "bare" /\ folder'[to].disks = 0
    <3> DEFINE r == [args |-> "bare", disks |-> 0]
    <3>1. r \in [args : Versions, disks : Nat] /\ r.args = "bare" /\ r.disks = 0
      BY <1>3
    <3>2. folder' = [folder EXCEPT ![to] = r]
      BY <1>0
    <3> HIDE DEF r
    <3> QED
      BY <1>1, <3>1, <3>2 DEF Versioned
  <2>2. folder'[to].disks + clone'.left = NumDisks
    BY <1>1, <1>4, <2>1
  <2>3. args[from] \notin {"none", "bare"}
    BY <1>0, <1>2 DEF Full, New, Changed
  <2>4. /\ clone'.to \in store' /\ clone'.from \in Ids /\ clone'.from # clone'.to
        /\ clone'.left > 0
    BY <1>1, <1>3, <1>4, <1>5
  <2> QED
    BY <1>0, <1>4, <2>1, <2>2, <2>3, <2>4 DEF CloneFits
<1>11. KeepsEdits
  BY <1>0, <1>5 DEF KeepsEdits
<1> QED
  BY <1>6, <1>7, <1>8, <1>9, <1>10, <1>11 DEF LInv

LEMMA RemoveKeeps ==
    ASSUME LInv, RemoveConfirmed
    PROVE  LInv' /\ KeepsEdits
<1>1. /\ folder \in Versioned /\ args \in [Ids -> Versions \ {"gone"}] /\ store \in SUBSET Ids
      /\ fileEvents \subseteq Ids /\ watched \subseteq Ids /\ phase \in PhaseMap
      /\ asked \subseteq Ids /\ qemu \subseteq Ids /\ box \in Boxes /\ askingUsb \subseteq Ids
      /\ dialog \in Dialogs /\ starting \subseteq Ids /\ endedFrom \subseteq store
      /\ went \subseteq store /\ win \in Windows /\ clone \in Clones
      /\ Notes(store, phase, starting, endedFrom)
  BY DEF LInv, TypeOK, DiskTyped, VmsTyped, WindowTyped, Versioned, PhaseMap, RunFits, Notes,
         FoldersFit
<1>2. PICK id \in store : id = dialog.vm
  BY DEF RemoveConfirmed, LInv, DialogFits, Asks
<1> DEFINE phases == [phase EXCEPT ![id] = "Idle"]
<1>3. /\ dialog.kind = "remove" /\ ~IsActive(id)
      /\ folder' = [folder EXCEPT ![id] = Gone]
      /\ dirEvent' = TRUE
      /\ fileEvents' = IF id \in watched THEN fileEvents \cup {id} ELSE fileEvents
      /\ watched' = watched \ {id}
      /\ store' = store \ {id}
      /\ args' = [args EXCEPT ![id] = "empty"]
      /\ phase' = phases
      /\ asked' = asked \ {id}
      /\ win' \in Relisted(win, {id}, {}, phases)
      /\ starting' = starting \ {id}
      /\ endedFrom' = endedFrom \ {id}
      /\ went' = went \ {id}
      /\ dialog' = NoDialog
      /\ UNCHANGED <<qemu, box, askingUsb, clone, byHand, restarts, halves>>
  BY <1>2 DEF RemoveConfirmed, Remove
<1>4. /\ id \in Ids /\ clone = NoClone /\ NoDialog \in Dialogs /\ NoDialog.kind = "none"
      /\ NoDialog.vm = None /\ None \notin Ids
  BY <1>1, <1>3, NoCloneElse, NoQuestion, LibraryAssumption DEF NoDialog
<1>5. /\ phases \in PhaseMap /\ phases[id] = "Idle" /\ \A x \in Ids \ {id} : phases[x] = phase[x]
  BY <1>1, <1>4 DEF PhaseMap, Phases
<1> HIDE DEF phases
<1>6. /\ folder' \in Versioned /\ folder'[id].args = "gone"
      /\ \A x \in Ids \ {id} : folder'[x] = folder[x]
      /\ args' \in [Ids -> Versions \ {"gone"}]
      /\ \A x \in Ids \ {id} : args'[x] = args[x]
  BY <1>1, <1>3, <1>4 DEF Versioned, Versions, Gone
<1>7. \A x \in Ids \ {id} : x \in Present(folder') <=> x \in Present(folder)
  BY <1>6 DEF Present
<1>8. /\ win' \in Windows
      /\ Fits(win', store', phase', FALSE)
      /\ win.edit => win'.pane = win.pane \/ win.pane \notin store'
  <2>1. Fits(win, store, phase, FALSE) /\ Fits(win, store, phase, NoDialog.kind = "leave")
    BY <1>3, <1>4 DEF LInv, WinFits, Fits
  <2>2. {id} \subseteq store /\ (store \ {id}) \cup {} = store'
    BY <1>3
  <2>3. \A x \in store \ {id} : StateOf(phases[x]) = StateOf(phase[x])
    BY <1>1, <1>5
  <2>4. Relists(win, NoDialog, phase, {id}, {}, phases)
    BY <1>1, <1>4, <1>5, <2>1, <2>2, <2>3, NoQuestion DEF Relists
  <2>5. PICK v \in Relisted(win, {id}, {}, phases) : win' = v
    BY <1>3
  <2>6. /\ v \in Windows
        /\ Fits(v, (store \ {id}) \cup {}, phases, NoDialog.kind = "leave")
        /\ win.edit => (v.pane = win.pane /\ v.edit) \/ win.pane \notin (store \ {id}) \cup {}
    BY <2>4, RelistedFacts
  <2>7. Fits(v, store', phases, NoDialog.kind = "leave")
    BY <2>2, <2>6
  <2>8. Fits(v, store', phases, FALSE)
    BY <1>4, <2>7 DEF Fits
  <2> QED
    BY <1>3, <2>2, <2>5, <2>6, <2>8
<1>9. TypeOK'
  <2>1. DiskTyped'
    BY <1>1, <1>3, <1>4, <1>6 DEF LInv, TypeOK, DiskTyped, Versioned
  <2> QED
    BY <1>1, <1>3, <1>4, <1>5, <1>6, <1>8, <2>1 DEF TypeOK, VmsTyped, WindowTyped, PhaseMap
<1>10. FoldersFit'
  <2>1. ASSUME NEW x \in (store' \cap Present(folder')) \ (fileEvents' \cup went')
        PROVE  x \in watched' /\ args'[x] = folder'[x].args
    <3>1. x # id /\ x \in store /\ x \in Ids
      BY <1>1, <1>3, <2>1
    <3>2. x \in (store \cap Present(folder)) \ (fileEvents \cup went)
      BY <1>3, <1>7, <2>1, <3>1
    <3>3. x \in watched /\ args[x] = folder[x].args
      BY <3>2 DEF LInv, FoldersFit
    <3> QED
      BY <1>3, <1>6, <3>1, <3>3
  <2>2. went' \subseteq store'
    BY <1>1, <1>3
  <2> QED
    BY <1>3, <2>1, <2>2 DEF FoldersFit
<1>11. WinFits' /\ DialogFits'
  <2>1. store' \in SUBSET Ids
    BY <1>1, <1>3
  <2>2. Asks(dialog', store', win')
    BY <1>3, <2>1, NoQuestion
  <2>3. Fits(win', store', phase', dialog'.kind = "leave")
    BY <1>3, <1>4, <1>8 DEF Fits
  <2> QED
    BY <2>2, <2>3 DEF WinFits, DialogFits
<1>12. RunFits'
  <2>1. TellsWhy'
    BY <1>3 DEF LInv, RunFits, TellsWhy
  <2>2. Notes(store', phase', starting', endedFrom')
    <3>1. ASSUME NEW x \in Ids
          PROVE  /\ phase'[x] # "Idle" => x \in store'
                 /\ phase'[x] \in {"Running", "Stopping"} => x \notin starting'
                 /\ phase'[x] = "Starting" => x \in starting'
                 /\ phase'[x] = "Attach" => x \in starting' \/ x \notin endedFrom'
      <4>1. CASE x = id
        BY <1>3, <1>5, <4>1
      <4>2. CASE x # id
        <5>1. /\ phase'[x] = phase[x]
              /\ x \in store' <=> x \in store
              /\ x \in starting' <=> x \in starting
              /\ x \in endedFrom' <=> x \in endedFrom
          BY <1>3, <1>5, <4>2
        <5> QED
          BY <1>1, <5>1 DEF Notes
      <4> QED
        BY <4>1, <4>2
    <3>2. endedFrom' \subseteq store'
      BY <1>1, <1>3
    <3> QED
      BY <3>1, <3>2 DEF Notes
  <2> QED
    BY <2>1, <2>2 DEF RunFits
<1>13. CloneFits'
  BY <1>3, <1>4 DEF CloneFits, NoClone
<1>14. WholeFits'
  <2> SUFFICES ASSUME NEW x \in Ids \ halves
               PROVE  /\ folder'[x].args \notin {"gone", "bare"} => folder'[x].disks = NumDisks
                      /\ folder'[x].args = "bare" => x = clone.to
    BY <1>3 DEF WholeFits
  <2>1. CASE x = id
    BY <1>6, <2>1
  <2>2. CASE x # id
    BY <1>6, <2>2 DEF LInv, WholeFits
  <2> QED
    BY <2>1, <2>2
<1>15. KeepsEdits
  BY <1>3, <1>4, <1>8 DEF KeepsEdits
<1> QED
  BY <1>9, <1>10, <1>11, <1>12, <1>13, <1>14, <1>15 DEF LInv

(* The steps that reload: the watcher told, or a clone is undone.           *)
LEMMA ReloadStep ==
    ASSUME LInv, DirectoryChanged \/ CloneFails \/ CloneCancelled
    PROVE  LInv' /\ KeepsEdits
<1>1. folder \in Versioned /\ fileEvents \subseteq Ids
  BY DEF LInv, TypeOK, DiskTyped, Versioned
<1>2. CASE DirectoryChanged
  <2>1. /\ dirEvent' = FALSE /\ Reload(folder, win)
        /\ UNCHANGED <<folder, qemu, fileEvents, dialog, box, askingUsb, clone, byHand, restarts,
                       halves>>
    BY <1>2 DEF DirectoryChanged
  <2> QED
    BY <1>1, <2>1, ReloadKeeps
<1>3. CASE \/ CloneFails
           \/ CloneCancelled /\ clone # NoClone
  <2> DEFINE f == [folder EXCEPT ![clone.to] = Gone]
  <2>1. /\ clone # NoClone /\ folder' = f /\ fileEvents' = fileEvents \cup {clone.to}
        /\ dirEvent' = TRUE /\ clone' = NoClone /\ Reload(f, win)
        /\ dialog' \in {dialog, NoDialog}
        /\ UNCHANGED <<qemu, box, askingUsb, byHand, restarts, halves>>
    BY <1>3 DEF CloneFails, CloneCancelled, Undone
  <2>2. clone.to \in Ids
    BY <2>1, CloneFacts
  <2>3. f \in Versioned
    BY <1>1, <2>2 DEF Versioned, Versions, Gone
  <2> HIDE DEF f
  <2>4. fileEvents \subseteq fileEvents' /\ fileEvents' \subseteq Ids /\ clone.to \in fileEvents'
    BY <1>1, <2>1, <2>2
  <2> QED
    BY <2>1, <2>3, <2>4, ReloadKeeps DEF f
<1>4. CASE CloneCancelled /\ clone = NoClone
  <2>1. /\ dialog' = NoDialog /\ dialog.kind = "cloning"
        /\ UNCHANGED <<folder, dirEvent, fileEvents, watched, clone, store, args, phase, asked,
                       win, starting, endedFrom, went, qemu, box, askingUsb, byHand, restarts,
                       halves>>
    BY <1>4 DEF CloneCancelled, disk
  <2>2. Windowed
    <3>1. /\ win \in Windows /\ store \in SUBSET Ids
      BY DEF LInv, TypeOK, VmsTyped, WindowTyped
    <3>2. Fits(win, store, phase, NoDialog.kind = "leave") /\ Asks(NoDialog, store, win)
      BY <2>1, <3>1, NoQuestion DEF LInv, WinFits, Fits
    <3>3. Follows(win, win', phase, phase')
      BY <2>1, <3>1, WindowSame
    <3> QED
      BY <2>1, <3>1, <3>2, <3>3, NoQuestion, FollowsWindowed
  <2>3. RunSound
    BY <2>1, NothingRan
  <2>4. askingUsb' \subseteq Ids
    BY <2>1 DEF LInv, TypeOK, WindowTyped
  <2>5. UserKept
    BY <1>4, <2>1, <2>2, <2>3, <2>4 DEF UserKept
  <2> QED
    BY <2>5, UserStep
<1> QED
  BY <1>2, <1>3, <1>4

-----------------------------------------------------------------------------
(* What begins                                                              *)

LEMMA RunnerBegins ==
    ASSUME NEW id \in Ids, Runner(id)
    PROVE  NothingBegins
<1>1. CASE Connected(id) \/ QmpClosed(id) \/ GuestShutsDown(id)
  BY <1>1 DEF Connected, QmpClosed, GuestShutsDown, StateChanged, runnerSame, NothingBegins
<1>2. CASE AttachFails(id)
  BY <1>2 DEF AttachFails, Fail, runnerSame, NothingBegins
<1>3. CASE QemuEnds(id) \/ QemuRefuses(id)
  BY <1>3 DEF QemuEnds, QemuRefuses, runnerSame, NothingBegins
<1>4. CASE RunOver(id)
  BY <1>4 DEF RunOver, StateChanged, Fail, runnerSame, NothingBegins
<1>5. CASE UsbAnswered(id)
  BY <1>5 DEF UsbAnswered, StartRun, Fail, NothingBegins
<1> QED
  BY <1>1, <1>2, <1>3, <1>4, <1>5 DEF Runner

(* Only the user has a VM begin: by the button or the message about its     *)
(* failure, while no question is asked, or by the answer to one.            *)
LEMMA StartsAsked ==
    ASSUME LInv, [Next]_vars
    PROVE  \/ NothingBegins
           \/ dialog.kind = "start" /\ dialog.vm = win.pane
           \/ dialog.kind = "none" /\ (win.edit => ~Begins(win.pane))
<1>1. CASE StartClicked
  <2>1. Start(win.cur, win) /\ CanAct
    BY <1>1 DEF StartClicked
  <2>2. dialog.kind = "none" /\ win.cur = win.pane
    BY <2>1, MayAct
  <2>3. win.edit => NothingBegins
    BY <2>1, <2>2 DEF Start, NothingBegins
  <2> QED
    BY <2>2, <2>3
<1>2. CASE BoxClosed
  <2>1. /\ dialog = NoDialog /\ ~win.leaving /\ dialog.kind = "none"
        /\ UNCHANGED <<qemu, starting>>
    BY <1>2 DEF BoxClosed, NoDialog
  <2>2. PICK shown : shown = SelectIn(win, box.vm, phase)
    OBVIOUS
  <2>3. CASE UNCHANGED askingUsb
    BY <2>1, <2>3 DEF NothingBegins
  <2>4. CASE /\ box.vm \in store /\ askingUsb' = askingUsb \cup {box.vm}
             /\ ~(box.vm = shown.pane /\ shown.edit)
    <3>1. win.edit => shown.pane = win.pane /\ shown.edit
      BY <2>1, <2>2, <2>4, BoxShows
    <3>2. win.edit => win.pane # box.vm
      BY <2>4, <3>1
    <3> QED
      BY <2>1, <2>4, <3>2 DEF Begins
  <2> QED
    BY <1>2, <2>2, <2>3, <2>4 DEF BoxClosed
<1>3. ASSUME NEW v \in {Changed, "discard"}, AnswerYes(v)
      PROVE  NothingBegins \/ (dialog.kind = "start" /\ dialog.vm = win.pane)
  <2>1. CASE dialog.kind = "start"
    BY <2>1 DEF LInv, DialogFits, Asks, WinFits, Fits
  <2>2. CASE dialog.kind # "start"
    BY <1>3, <2>2 DEF AnswerYes, NothingBegins
  <2> QED
    BY <2>1, <2>2
<1>4. CASE \/ Edit \/ LeaveVm \/ CloneClicked \/ RemoveClicked \/ ApplyClicked
           \/ DiscardClicked \/ AnswerNo
           \/ \E id \in Ids : Select(id)
  BY <1>4 DEF Edit, LeaveVm, CloneClicked, RemoveClicked, ApplyClicked, DiscardClicked,
     AnswerNo, Select, vms, NothingBegins
<1>5. CASE ForceOff
  BY <1>5 DEF ForceOff, StateChanged, NothingBegins
<1>6. CASE RemoveConfirmed
  BY <1>6 DEF RemoveConfirmed, Remove, NothingBegins
<1>7. CASE CopyEnds \/ CloneEnds
  BY <1>7 DEF CopyEnds, CloneEnds, vms, window, NothingBegins
<1>8. CASE DirectoryChanged \/ CloneFails \/ CloneCancelled
  BY <1>8 DEF DirectoryChanged, CloneFails, CloneCancelled, Undone, Reload, NothingBegins
<1>9. CASE Closed \/ Killed
  BY <1>9 DEF Closed, Killed, Manager, NothingBegins
<1>10. ASSUME NEW id \in Ids, NewVm(id) \/ CloneAccepted(id)
       PROVE  NothingBegins
  BY <1>10 DEF NewVm, CloneAccepted, Reload, NothingBegins
<1>11. ASSUME NEW id \in Ids,
              FileChanged(id) \/ DropIn(id) \/ TakeAway(id) \/ EditByHand(id)
       PROVE  NothingBegins
  BY <1>11 DEF FileChanged, DropIn, TakeAway, EditByHand, ByHand, vms, window, NothingBegins
<1>12. CASE UNCHANGED vars
  BY <1>12 DEF vars, vms, window, NothingBegins
<1> QED
  BY <1>1, <1>2, <1>3, <1>4, <1>5, <1>6, <1>7, <1>8, <1>9, <1>10, <1>11, <1>12, RunnerBegins
  DEF Next, User

(* The folder of what is cloned changes by hand only: a question is open,   *)
(* and the copies go to another folder.                                     *)
LEMMA SourceKept ==
    ASSUME LInv, [Next]_vars, clone # NoClone
    PROVE  folder'[clone.from] = folder[clone.from] \/ byHand' # byHand
<1>1. PICK from \in Ids, to \in Ids : /\ from = clone.from /\ to = clone.to /\ from # to
                                     /\ dialog.kind = "cloning"
  BY CloneFacts
<1>2. folder \in Versioned /\ byHand \in Nat
  BY DEF LInv, TypeOK, DiskTyped, WindowTyped, Versioned
<1>3. ~CanAct
  BY MayAct
<1>4. CASE \/ UNCHANGED folder
           \/ byHand' = byHand + 1
           \/ \E x : folder' = [folder EXCEPT ![to] = x]
  BY <1>1, <1>2, <1>4 DEF Versioned
<1>5. CASE CopyEnds \/ CloneEnds \/ CloneFails \/ CloneCancelled
  <2>1. \/ UNCHANGED folder
        \/ \E x : folder' = [folder EXCEPT ![clone.to] = x]
    BY <1>2, <1>5
    DEF CopyEnds, CloneEnds, CloneFails, CloneCancelled, Undone, disk, Versioned
  <2> QED
    BY <1>1, <1>4, <2>1
<1>6. CASE \/ Edit \/ StartClicked \/ ForceOff \/ CloneClicked \/ RemoveClicked
           \/ ApplyClicked \/ DiscardClicked \/ Closed
           \/ \E id \in Ids : Select(id) \/ NewVm(id) \/ CloneAccepted(id)
  BY <1>3, <1>6
  DEF Edit, StartClicked, ForceOff, CloneClicked, RemoveClicked, ApplyClicked, DiscardClicked,
      Closed, Select, NewVm, CloneAccepted
<1>7. CASE \/ AnswerNo \/ RemoveConfirmed
           \/ \E v \in {Changed, "discard"} : AnswerYes(v)
  BY <1>1, <1>7 DEF AnswerNo, RemoveConfirmed, AnswerYes
<1>8. CASE LeaveVm \/ BoxClosed \/ Killed \/ DirectoryChanged
  BY <1>4, <1>8 DEF LeaveVm, BoxClosed, Killed, DirectoryChanged, userSame, disk
<1>9. ASSUME NEW id \in Ids, FileChanged(id) \/ Runner(id)
      PROVE  UNCHANGED folder
  BY <1>9
  DEF FileChanged, Runner, Connected, AttachFails, QemuEnds, QmpClosed, GuestShutsDown,
      QemuRefuses, RunOver, UsbAnswered, runnerSame, disk
<1>10. ASSUME NEW id \in Ids, DropIn(id) \/ TakeAway(id) \/ EditByHand(id)
       PROVE  byHand' = byHand + 1
  BY <1>10 DEF DropIn, TakeAway, EditByHand, ByHand
<1>11. CASE UNCHANGED vars
  BY <1>4, <1>11 DEF vars, disk
<1> QED
  BY <1>4, <1>5, <1>6, <1>7, <1>8, <1>9, <1>10, <1>11 DEF Next, User

-----------------------------------------------------------------------------
(* The theorems                                                             *)

LEMMA InitLInv == Init => LInv
<1> SUFFICES ASSUME Init PROVE LInv
  OBVIOUS
<1>1. /\ folder = [id \in Ids |-> IF id \in Vms THEN Whole(New) ELSE Gone]
      /\ qemu = {}
      /\ dirEvent = FALSE /\ fileEvents = {} /\ watched = Vms
      /\ store = Vms
      /\ args = [id \in Ids |-> IF id \in Vms THEN New ELSE "empty"]
      /\ phase = [id \in Ids |-> "Idle"]
      /\ asked = {}
      /\ dialog = NoDialog /\ box = NoBox /\ askingUsb = {}
      /\ starting = {} /\ endedFrom = {}
      /\ clone = NoClone
      /\ byHand = 0 /\ restarts = 0 /\ went = {} /\ halves = {}
  BY DEF Init
<1>2. Vms \subseteq Ids /\ NumDisks \in Nat /\ None \notin Ids
  BY LibraryAssumption
<1>3. PICK id \in Vms \cup {None} :
         win = [cur |-> id, pane |-> id, edit |-> FALSE, leaving |-> FALSE,
                buttons |-> ButtonsFor(id, phase)]
  BY DEF Init
<1>4. phase \in PhaseMap /\ \A x \in Ids : phase[x] = "Idle"
  BY <1>1 DEF PhaseMap, Phases
<1>5. /\ win \in Windows /\ win.cur = id /\ win.pane = id /\ win.edit = FALSE
      /\ win.buttons = ButtonsFor(id, phase)
  <2>1. ButtonsFor(id, phase) \in {"NoVm", "Stopped", "Starting", "Running", "Stopping"}
    BY <1>2, <1>3, <1>4, ButtonsTyped
  <2> HIDE DEF ButtonsFor
  <2> QED
    BY <1>2, <1>3, <2>1 DEF Windows
<1>6. /\ folder \in Versioned
      /\ \A x \in Ids : /\ x \in Vms => folder[x].args = New /\ folder[x].disks = NumDisks
                        /\ x \notin Vms => folder[x].args = "gone"
  <2>1. /\ Whole(New) \in [args : Versions, disks : Nat]
        /\ Whole(New).args = New /\ Whole(New).disks = NumDisks
    BY <1>2 DEF Whole, Versions, Full
  <2>2. Gone \in [args : Versions, disks : Nat] /\ Gone.args = "gone"
    BY DEF Gone, Versions
  <2> HIDE DEF Whole, Gone
  <2> QED
    BY <1>1, <2>1, <2>2 DEF Versioned
<1>7. Present(folder) = Vms
  BY <1>2, <1>6 DEF Present, New
<1>8. /\ args \in [Ids -> Versions \ {"gone"}]
      /\ \A x \in Vms : args[x] = New
  BY <1>1, <1>2 DEF Versions, Full, New
<1>9. /\ NoDialog \in Dialogs /\ NoBox \in Boxes /\ NoClone \in Clones
      /\ NoDialog.kind = "none" /\ NoDialog.vm = None /\ NoBox.cause = "none"
  BY DEF NoDialog, NoBox, NoClone, Dialogs, Boxes, Clones
<1>10. TypeOK
  <2>1. DiskTyped
    BY <1>1, <1>2, <1>6 DEF DiskTyped, Versioned
  <2> QED
    BY <1>1, <1>2, <1>4, <1>5, <1>8, <1>9, <2>1 DEF TypeOK, VmsTyped, WindowTyped, PhaseMap
<1>11. FoldersFit
  BY <1>1, <1>2, <1>6, <1>7, <1>8 DEF FoldersFit
<1>12. WinFits /\ DialogFits
  BY <1>1, <1>3, <1>5, <1>9 DEF WinFits, DialogFits, Fits, Asks
<1>13. RunFits
  <2>1. TellsWhy
    BY <1>1, <1>9 DEF TellsWhy
  <2> QED
    BY <1>1, <1>4, <2>1 DEF RunFits, Notes
<1>14. CloneFits
  BY <1>1 DEF CloneFits
<1>15. WholeFits
  BY <1>1, <1>2, <1>6, <1>8 DEF WholeFits, New
<1> QED
  BY <1>10, <1>11, <1>12, <1>13, <1>14, <1>15 DEF LInv

LEMMA StepLInv == LInv /\ [Next]_vars => LInv' /\ KeepsEdits
<1> SUFFICES ASSUME LInv, [Next]_vars PROVE LInv' /\ KeepsEdits
  OBVIOUS
<1>1. CASE DirectoryChanged \/ CloneFails \/ CloneCancelled
  BY <1>1, ReloadStep
<1>2. CASE \/ Edit \/ LeaveVm \/ StartClicked \/ ForceOff \/ CloneClicked \/ RemoveClicked
           \/ DiscardClicked \/ BoxClosed \/ AnswerNo \/ ApplyClicked
           \/ \E v \in {Changed, "discard"} : AnswerYes(v)
           \/ \E id \in Ids : Select(id)
  <2>1. UserKept
    BY <1>2, EditKeeps, LeaveVmKeeps, StartClickedKeeps, ForceOffKeeps, AskClickedKeeps,
       BoxClosedKeeps, AnswerNoKeeps, ApplyClickedKeeps, AnswerYesKeeps, SelectKeeps
  <2> QED
    BY <2>1, UserStep
<1>3. CASE RemoveConfirmed
  BY <1>3, RemoveKeeps
<1>4. CASE CopyEnds
  BY <1>4, CopyEndsKeeps
<1>5. CASE CloneEnds
  BY <1>5, CloneEndsKeeps
<1>6. CASE Closed \/ Killed
  BY <1>6, RestartKeeps
<1>7. ASSUME NEW id \in Ids,
             \/ FileChanged(id) \/ Runner(id) \/ NewVm(id) \/ CloneAccepted(id)
             \/ DropIn(id) \/ TakeAway(id) \/ EditByHand(id)
      PROVE  LInv' /\ KeepsEdits
  BY <1>7, FileChangedKeeps, RunnerStep, NewVmKeeps, CloneAcceptedKeeps, OutsideKeeps
<1>8. CASE UNCHANGED vars
  <2>1. UNCHANGED <<folder, dirEvent, fileEvents, watched, store, args, phase, asked, qemu, win,
                    dialog, box, askingUsb, starting, endedFrom, clone, byHand, restarts, went,
                    halves>>
    BY <1>8 DEF vars, disk, vms, window
  <2>2. CloneFits' /\ clone' \in Clones
    BY <2>1, CloneStays
  <2>3. /\ DiskTyped' /\ FoldersFit' /\ WholeFits' /\ args' \in [Ids -> Versions \ {"gone"}]
    BY <2>1, FoldersSame
  <2> QED
    BY <2>1, <2>2, <2>3, WindowStays DEF LInv, TypeOK, VmsTyped, WindowTyped
<1> QED
  BY <1>1, <1>2, <1>3, <1>4, <1>5, <1>6, <1>7, <1>8 DEF Next, User

(* The invariant holds, for every set of names and every bound.             *)
THEOREM LInvHolds == Spec => []LInv
<1>1. LInv /\ [Next]_vars => LInv'
  BY StepLInv
<1> QED
  BY InitLInv, <1>1, PTL DEF Spec

(* The list is that of the folders, but for VMs that ran when their folder  *)
(* went, and of each VM the library has what its vm.args says (VmStore and  *)
(* its watcher).                                                            *)
THEOREM FoldersShown == Spec => []ShowsTheFolders
<1>1. LInv => ShowsTheFolders
  BY DEF LInv, FoldersFit, WinFits, Fits, ShowsTheFolders
<1> QED
  BY LInvHolds, <1>1, PTL

(* Once the user may act, the buttons are for the VM that is selected and   *)
(* for its state (MainWindow::updateActions).                               *)
THEOREM ButtonsTrue == Spec => []ButtonsFit
<1>1. LInv => ButtonsFit
  BY DEF LInv, WinFits, Fits, ButtonsFit
<1> QED
  BY LInvHolds, <1>1, PTL

(* MainWindow::failed tells of every failure what it was.                   *)
THEOREM CausesTold == Spec => []TellsWhy
<1>1. LInv => TellsWhy
  BY DEF LInv, RunFits
<1> QED
  BY LInvHolds, <1>1, PTL

(* Changes that are not applied are asked about before the settings show    *)
(* another VM, and before the VM starts or is cloned (MainWindow::leaveVm,  *)
(* start).                                                                  *)
THEOREM EditsAsked == Spec => NoLostEdits
<1> DEFINE Asked == win.edit /\ Begins(win.pane) => dialog.kind = "start" /\ dialog.vm = win.pane
<1>1. LInv /\ [Next]_vars => [KeepsEdits /\ Asked]_vars
  <2>1. NothingBegins => ~Begins(win.pane)
    BY DEF NothingBegins, Begins
  <2> QED
    BY <2>1, StepLInv, StartsAsked
<1>2. [KeepsEdits /\ Asked]_vars =>
        [win.edit =>
           /\ win'.pane # win.pane =>
                 \/ dialog.kind = "leave" \/ win.pane \notin store' \/ restarts' # restarts
           /\ Begins(win.pane) => dialog.kind = "start" /\ dialog.vm = win.pane
           /\ dialog'.kind = "cloning" /\ dialog'.vm = win.pane => dialog.kind # "none"]_vars
  BY DEF KeepsEdits
<1> QED
  BY LInvHolds, <1>1, <1>2, PTL DEF Spec, NoLostEdits

(* While a VM is copied, the manager starts nothing of it but what already  *)
(* waits for access to USB devices, and nothing but hands changes its       *)
(* folder (VmCloner, and the dialog that runs it).                          *)
THEOREM SourceHeld == Spec => SourceLeftAlone
<1> DEFINE Held ==
             clone # NoClone =>
               /\ clone.from \in askingUsb' => clone.from \in askingUsb
               /\ clone.from \in qemu' => clone.from \in qemu \cup askingUsb
               /\ folder'[clone.from] = folder[clone.from] \/ byHand' # byHand
<1>1. LInv /\ [Next]_vars => [Held]_vars
  <2>1. SUFFICES ASSUME LInv, [Next]_vars, clone # NoClone
                 PROVE  Held
    OBVIOUS
  <2>2. NothingBegins
    BY <2>1, CloneFacts, StartsAsked
  <2> QED
    BY <2>1, <2>2, SourceKept DEF NothingBegins
<1> QED
  BY LInvHolds, <1>1, PTL DEF Spec, SourceLeftAlone

(* A clone has all its disks and its arguments, or it is being made, or it  *)
(* is gone; what a killed manager left is told apart.                       *)
THEOREM ClonesWhole == Spec => []WholeOrGone
<1>1. Full \cap {"gone", "bare"} = {}
  BY DEF Full, New, Changed
<1>2. LInv => WholeOrGone
  BY <1>1 DEF LInv, WholeFits, WholeOrGone
<1> QED
  BY LInvHolds, <1>2, PTL
================================================================================
