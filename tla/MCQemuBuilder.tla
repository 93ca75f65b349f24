---------------------------- MODULE MCQemuBuilder ----------------------------
(***************************************************************************)
(* QemuBuilder for TLC: master asks for no patches of its own, which the   *)
(* release and the first main of virglrenderer take; those of the          *)
(* experiment fit the first main only; the next main takes none.           *)
(***************************************************************************)
EXTENDS QemuBuilder

TakesPatches ==
    {t \in {<<0, "master">>, <<1, "master">>, <<1, "experiment">>} : t[2] \in Branches}
=============================================================================
