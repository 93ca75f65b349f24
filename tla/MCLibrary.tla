----------------------------- MODULE MCLibrary -----------------------------
(***************************************************************************)
(* The library for TLC: one VM, and the name of a second, which is cloned, *)
(* made new or dropped in.                                                 *)
(***************************************************************************)
EXTENDS Library
=============================================================================
