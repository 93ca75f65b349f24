--------------------------- MODULE SettingsProofs ---------------------------
(***************************************************************************)
(* What the Settings tab knows of vm.args, for every text, page and way of *)
(* writing the arguments back: the manager has what the file says, and the *)
(* pages come to edit something else in one way only.                      *)
(***************************************************************************)
EXTENDS Settings, TLAPS

-----------------------------------------------------------------------------
(* The page and the file                                                   *)

(* What the user does on a page leaves everything but the page alone.      *)
OnlyThePage == UNCHANGED <<file, vm, told, args, loaded>>

LEMMA ChangeIsOfThePage ==
    ASSUME NEW p, NEW new, Change(p, new)
    PROVE  OnlyThePage
  BY DEF Change, OnlyThePage

LEMMA EditIsOfThePage == Edit => OnlyThePage
<1> USE ChangeIsOfThePage
<1>1. ChangeGeneral => OnlyThePage
  BY DEF ChangeGeneral
<1>2. ChangeCpus => OnlyThePage
  BY DEF ChangeCpus
<1>3. ChangeSystem => OnlyThePage
  BY DEF ChangeSystem
<1>4. ChangeBoot => OnlyThePage
  BY DEF ChangeBoot
<1>5. ChangeDisplay => OnlyThePage
  BY DEF ChangeDisplay
<1>6. ChangeStorage => OnlyThePage
  BY DEF ChangeStorage, AddsDisk, AddsCdrom, ChoosesDisc, RemovesDisk
<1>7. ChangeShares => OnlyThePage
  BY DEF ChangeShares
<1>8. ChangePci => OnlyThePage
  BY DEF ChangePci
<1>9. ChangeUsb => OnlyThePage
  BY DEF ChangeUsb
<1>10. ChangeArguments => OnlyThePage
  BY DEF ChangeArguments
<1> QED
  BY <1>1, <1>2, <1>3, <1>4, <1>5, <1>6, <1>7, <1>8, <1>9, <1>10 DEF Edit

(* The steps that leave the manager and the file as they are.              *)
LEMMA QuietSteps ==
    /\ Switch \/ ApplyFails => UNCHANGED <<file, vm, told, loaded>>
    /\ Discard \/ Rebuild => UNCHANGED <<file, vm, told>>
  BY DEF Switch, SwitchWith, ApplyFails, ApplyFailsTo, Discard, Rebuild

-----------------------------------------------------------------------------
(* The manager and the file                                                *)

(* Once the watcher has told of a change to vm.args, the arguments of the  *)
(* Vm are what the file says, whether it was changed by hand, by Apply, or *)
(* both in either order (Vm::reload).                                      *)
THEOREM KnowsTheFileHolds == Spec => []KnowsTheFile
<1>1. Init => KnowsTheFile
  BY DEF Init, KnowsTheFile
<1>2. KnowsTheFile /\ [Next]_vars => KnowsTheFile'
  <2> SUFFICES ASSUME KnowsTheFile, [Next]_vars PROVE KnowsTheFile'
    OBVIOUS
  <2>1. CASE UNCHANGED <<file, vm, told>>
    BY <2>1 DEF KnowsTheFile
  <2>2. CASE Apply
    <3>1. \/ UNCHANGED <<file, vm, told>>
          \/ told' => ToText(vm') = ToText(Parse(file'))
      BY <2>2 DEF Apply, ApplyTo
    <3> QED
      BY <2>1, <3>1 DEF KnowsTheFile
  <2>3. CASE EditByHand
    BY <2>3 DEF EditByHand, KnowsTheFile
  <2>4. CASE FileChanged
    <3>1. vm' = Reread /\ file' = file
      BY <2>4 DEF FileChanged
    <3>2. ToText(vm') = ToText(Parse(file))
      BY <3>1 DEF Reread
    <3> QED
      BY <3>1, <3>2 DEF KnowsTheFile
  <2> QED
    BY <2>1, <2>2, <2>3, <2>4, EditIsOfThePage, QuietSteps DEF Next, vars, OnlyThePage
<1> QED
  BY <1>1, <1>2, PTL DEF Spec

-----------------------------------------------------------------------------
(* The pages and the manager                                               *)

(* Apply, Discard and a new vm.args load the pages; what else there is     *)
(* leaves the Vm and the text that was loaded alone.                       *)
LEMMA OldWhenTakenBackKeeps ==
    ASSUME [Next]_vars
    PROVE  OldWhenTakenBack
<1>1. ASSUME UNCHANGED <<vm, loaded>>
      PROVE  OldWhenTakenBack
  <2>1. CASE loaded = ToText(vm)
    <3>1. EditsTheVm'
      BY <1>1, <2>1 DEF EditsTheVm, Modified
    <3> QED
      BY <3>1 DEF OldWhenTakenBack
  <2>2. CASE loaded # ToText(vm)
    <3>1. ~Modified => ~EditsTheVm
      BY <2>2 DEF EditsTheVm, Modified
    <3> QED
      BY <1>1, <2>2, <3>1 DEF OldWhenTakenBack
  <2> QED
    BY <2>1, <2>2
<1>2. ASSUME loaded' = ToText(vm')
      PROVE  OldWhenTakenBack
  BY <1>2 DEF EditsTheVm, Modified, OldWhenTakenBack
<1>3. CASE Edit \/ Switch \/ ApplyFails
  BY <1>1, <1>3, EditIsOfThePage, QuietSteps DEF OnlyThePage
<1>4. CASE Apply \/ Discard \/ Rebuild
  BY <1>2, <1>4 DEF Apply, ApplyTo, Discard, Rebuild
<1>5. CASE EditByHand
  BY <1>1, <1>5 DEF EditByHand
<1>6. CASE FileChanged
  <2>1. CASE vm' # vm /\ ~Modified
    BY <1>2, <1>6, <2>1 DEF FileChanged
  <2>2. CASE vm' = vm
    BY <1>1, <1>6, <2>2 DEF FileChanged
  <2>3. CASE Modified /\ vm' # vm
    <3>1. UNCHANGED <<args, loaded, page, shown, was>>
      BY <1>6, <2>3 DEF FileChanged
    <3>2. Modified'
      BY <2>3, <3>1 DEF Modified
    <3> QED
      BY <3>2 DEF EditsTheVm, OldWhenTakenBack
  <2> QED
    BY <2>1, <2>2, <2>3
<1>7. CASE UNCHANGED vars
  BY <1>1, <1>7 DEF vars
<1> QED
  BY <1>3, <1>4, <1>5, <1>6, <1>7 DEF Next

(* Whatever the user and the watcher do, pages without changes go on to    *)
(* edit the arguments of the Vm, but for changes that are taken back after *)
(* the Vm was reloaded under them (VmPane::isModified, vmChanged).         *)
THEOREM EditsTheVmUnlessTakenBack == Spec => [][OldWhenTakenBack]_vars
<1>1. [Next]_vars => [OldWhenTakenBack]_vars
  BY OldWhenTakenBackKeeps
<1> QED
  BY <1>1, PTL DEF Spec
=============================================================================
