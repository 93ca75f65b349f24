---------------------------- MODULE MCVmSnapshots ----------------------------
(* VmSnapshots under three kinds of conditions: anything may happen to a   *)
(* VM of one disk; the disks of a VM are worked on one after the other and *)
(* QEMU takes them in the middle; and nothing comes between.               *)
EXTENDS VmSnapshots

Anything == [disks |-> 1, takes |-> 1, breaks |-> {"-c", "-d", "-a", "info"},
             startsIdle |-> FALSE, actsListed |-> FALSE, reselects |-> TRUE]
OneView  == [disks |-> 2, takes |-> 2, breaks |-> {"-c", "-d", "-a"},
             startsIdle |-> FALSE, actsListed |-> TRUE, reselects |-> FALSE]
AtRest   == [OneView EXCEPT !.breaks = {"-c", "-a"}, !.startsIdle = TRUE]

MCConditions == {Anything, OneView, AtRest}
=============================================================================
