----------------------------- MODULE MCVmRunner -----------------------------
(***************************************************************************)
(* VmRunner for TLC.  The shared folders are alike: nothing in the code    *)
(* depends on which one it is, and every action is about a set of them or  *)
(* about any of them.  SharesAlike is for the runs without liveness.       *)
(***************************************************************************)
EXTENDS VmRunner, TLC

SharesAlike == Permutations(Shares)
=============================================================================
