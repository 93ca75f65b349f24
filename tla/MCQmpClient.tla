----------------------------- MODULE MCQmpClient -----------------------------
(***************************************************************************)
(* QmpClient for TLC: four ids, two of which the handshakes of two         *)
(* connections take.  They are enough for a command that waits through a   *)
(* failed attempt, one awaiting its reply when the connection drops, and   *)
(* one executed from within a failed callback.                             *)
(***************************************************************************)
EXTENDS QmpClient
=============================================================================
