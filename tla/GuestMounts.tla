----------------------------- MODULE GuestMounts -----------------------------
(***************************************************************************)
(* GuestAgent, src/core/guestagent.cpp, and the part of VmRunner,          *)
(* src/core/vmrunner.cpp, that mounts the shared folders with it: each     *)
(* time qemu-ga opens its port in the guest, the manager connects to it    *)
(* and has it run a script for one share after the other.                  *)
(*                                                                         *)
(* QEMU, the guest and its agent are external.  The port carries bytes for *)
(* whoever is connected, so that what was said on an earlier connection    *)
(* may be answered on a later one; the agent stops and starts, and the     *)
(* guest reboots, at any moment.  A GuestAgent that is replaced is gone at *)
(* once: deleteLater() comes before anything else that it could hear.      *)
(***************************************************************************)
EXTENDS Naturals, Sequences

CONSTANTS
    NumShares,      \* the shares with a mount point, in their order
    MaxOpens,       \* bound: how often the agent opens its port
    MaxQuits,       \* bound: how often the manager quits
    Fstab           \* the shares that systemd may mount at boot (fstab.extra)

ASSUME ConstantsAssumption ==
    /\ {NumShares, MaxOpens} \subseteq Nat \ {0}
    /\ MaxQuits \in Nat
    /\ Fstab \subseteq 1 .. NumShares

VARIABLES
    qemu,           \* QEMU runs
    qmp,            \* the manager is connected to it
    args,           \* d->args: "none", or those of the "vm"
    events,         \* VSERPORT_CHANGE events that the manager has not read
    agent,          \* d->agent: the number of its connection, 0 for none
    syncing,        \* m_syncId >= 0, and the timer of connectToSocket() runs
    step,           \* what the callback in m_pending waits for; "sleep": the timer of pollExec()
    share,          \* the share being mounted
    pid,            \* what pollExec() polls: the connection and share it was started for
    mounted,        \* told to be mounted so far
    problems,       \* told not to be
    told,           \* what the last handler told with sharesMounted()
    toGuest,        \* requests that the agent has not read
    fromGuest,      \* its replies that the manager has not read
    running,        \* qemu-ga runs in the guest and has its port open
    programs,       \* that it started, and knows
    mounts,         \* the shares mounted in the guest
    opened,         \* history: how often the agent opened its port, and the connections
    quits,          \* history: how often the manager quit
    succeeded,      \* history: the connections and shares whose script ended with 0
    owed            \* history: the agent came up, and nothing was told of it

mountVars == <<agent, syncing, step, share, pid, mounted, problems>>
portVars == <<toGuest, fromGuest>>
guestVars == <<running, programs, mounts, succeeded>>
vmVars == <<qemu, qmp, args, quits>>
vars == <<vmVars, events, mountVars, told, portVars, guestVars, opened, owed>>

Shares == 1 .. NumShares
NoPid == [connection |-> 0, share |-> 0]

Init ==
    /\ qemu = TRUE /\ qmp = TRUE /\ args = "vm"
    /\ events = 0
    /\ agent = 0 /\ syncing = FALSE /\ step = "none" /\ share = 0 /\ pid = NoPid
    /\ mounted = {} /\ problems = {} /\ told = {}
    /\ toGuest = <<>> /\ fromGuest = <<>>
    /\ running = FALSE /\ programs = {} /\ mounts \in SUBSET Fstab
    /\ opened = 0 /\ quits = 0 /\ succeeded = {} /\ owed = FALSE

-----------------------------------------------------------------------------
(* What goes through the port.  The ids of commands count from 1 on each    *)
(* connection, whatever was asked on earlier ones: here they are the share  *)
(* and the command.                                                         *)

Prefixes(s) == {SubSeq(s, 1, k) : k \in 0 .. Len(s)}
Suffixes(s) == {SubSeq(s, k, Len(s)) : k \in 1 .. Len(s) + 1}

(* The socket closes: what it holds of replies is lost; what the manager    *)
(* wrote goes to the guest, or not.                                         *)
PortCloses ==
    IF agent = 0 THEN UNCHANGED portVars
    ELSE /\ toGuest' \in Prefixes(toGuest)
         /\ fromGuest' \in Suffixes(fromGuest)

-----------------------------------------------------------------------------
(* VmRunner::Private.                                                       *)

NoAgent ==
    /\ agent' = 0 /\ syncing' = FALSE /\ step' = "none" /\ share' = 0 /\ pid' = NoPid
    /\ mounted' = {} /\ problems' = {}

Told(m, p) == [connection |-> agent, mounted |-> m, problems |-> p, error |-> FALSE]
ToldError  == [connection |-> agent, mounted |-> {}, problems |-> {}, error |-> TRUE]

(* sharesMounted(), which is about this boot once its event was read.       *)
Tells(tellings) ==
    /\ told' = tellings
    /\ owed' = (owed /\ events > 0)

(* endMounts() *)
EndMounts(m, p) ==
    /\ Tells({Told(m, p)})
    /\ NoAgent
    /\ PortCloses

(* execute(), once the port has been read up to replies                     *)
Request(c, command, s, program) ==
    [connection |-> c, command |-> command, share |-> s, pid |-> program]

PollExec(program, replies) ==
    /\ step' = "status" /\ pid' = program
    /\ toGuest' = Append(toGuest, Request(agent, "status", share, program))
    /\ fromGuest' = replies
    /\ told' = {}
    /\ UNCHANGED <<agent, syncing, share, mounted, problems, owed>>

Exec(s, m, p, replies) ==
    /\ step' = "exec" /\ share' = s /\ pid' = NoPid /\ mounted' = m /\ problems' = p
    /\ toGuest' = Append(toGuest, Request(agent, "exec", s, NoPid))
    /\ fromGuest' = replies
    /\ told' = {}
    /\ UNCHANGED <<agent, owed>>

MountNext(m, p) ==          \* in the callback of exec()
    IF share = NumShares THEN EndMounts(m, p)
    ELSE Exec(share + 1, m, p, Tail(fromGuest)) /\ UNCHANGED syncing

(* fail(): the callback that waits is told, which has all that is left fail *)
(* as well and ends the mounting; failed() then tells of the error again.   *)
(* While pollExec() sleeps no callback waits, and its timer goes with the   *)
(* agent.                                                                   *)
Fail ==
    /\ Tells((IF step \in {"none", "sleep"} THEN {} ELSE {Told(mounted, Shares \ mounted)})
                 \cup {ToldError})
    /\ NoAgent
    /\ PortCloses

OnceOnly ==                 \* mutant: not while an earlier mounting goes on
    args = "vm" /\ agent = 0

Wanted == args = "vm"       \* addsAgent() of the arguments the manager has

(* The agent of an earlier connection is deleted, without a callback.       *)
Connect(c) ==               \* connectToSocket()
    /\ agent' = c /\ syncing' = TRUE /\ step' = "none" /\ share' = 0 /\ pid' = NoPid
    /\ mounted' = {} /\ problems' = {}
    /\ \E sent \in Prefixes(toGuest), left \in Suffixes(fromGuest) :
        /\ agent = 0 => sent = toGuest /\ left = fromGuest
        /\ toGuest' = Append(sent, Request(c, "sync", 0, NoPid))
        /\ fromGuest' = left

MountShares ==              \* VSERPORT_CHANGE
    /\ qmp /\ events > 0
    /\ events' = events - 1
    /\ IF ~Wanted THEN UNCHANGED <<mountVars, portVars, owed>> /\ told' = {}
       ELSE IF qemu THEN Connect(opened - events') /\ UNCHANGED owed /\ told' = {}
       ELSE /\ told' = {ToldError} /\ owed' = FALSE
            /\ NoAgent
            /\ PortCloses
    /\ UNCHANGED <<vmVars, guestVars, opened>>

(* cleanup(): the run is over, and a new one begins with start()            *)
Cleanup ==
    /\ qmp /\ ~qemu
    /\ qmp' = FALSE
    /\ events' = 0
    /\ told' = {}
    /\ NoAgent
    /\ PortCloses
    /\ UNCHANGED <<qemu, args, quits, guestVars, opened, owed>>

-----------------------------------------------------------------------------
(* GuestAgent.                                                              *)

NoSync(reply) == TRUE       \* mutant: any reply will do

InSync(reply) == reply.command = "sync" /\ reply.connection = agent

IsAnswer(reply) == reply.command = step /\ reply.share = share

Heard ==                    \* read()
    /\ agent # 0 /\ fromGuest # <<>>
    /\ UNCHANGED <<vmVars, events, guestVars, opened>>

(* A reply that nothing waits for: left from earlier connections, a sync    *)
(* that timed out, or what the reset of the parser gives.                   *)
Skip ==
    /\ Heard
    /\ IF syncing THEN ~InSync(Head(fromGuest)) ELSE ~IsAnswer(Head(fromGuest))
    /\ fromGuest' = Tail(fromGuest)
    /\ told' = {}
    /\ UNCHANGED <<mountVars, toGuest, owed>>

Ready ==
    /\ Heard /\ syncing
    /\ InSync(Head(fromGuest))
    /\ syncing' = FALSE
    /\ Exec(1, {}, {}, Tail(fromGuest))

Started ==                  \* guest-exec gave a pid: pollExec()
    /\ Heard /\ ~syncing
    /\ LET reply == Head(fromGuest) IN
        /\ step = "exec" /\ IsAnswer(reply) /\ reply.value = "pid"
        /\ PollExec(reply.pid, Tail(fromGuest))

StillRuns ==
    /\ Heard /\ ~syncing
    /\ LET reply == Head(fromGuest) IN
        /\ step = "status" /\ IsAnswer(reply) /\ reply.value = "running"
    /\ step' = "sleep"
    /\ fromGuest' = Tail(fromGuest)
    /\ told' = {}
    /\ UNCHANGED <<agent, syncing, share, pid, mounted, problems, toGuest, owed>>

PollAgain ==
    /\ agent # 0 /\ step = "sleep"
    /\ PollExec(pid, fromGuest)
    /\ UNCHANGED <<vmVars, events, guestVars, opened>>

Mounted ==                  \* the script ended with 0
    /\ Heard /\ ~syncing
    /\ LET reply == Head(fromGuest) IN
        /\ step = "status" /\ IsAnswer(reply) /\ reply.value = "done"
    /\ MountNext(mounted \cup {share}, problems)

(* It ended otherwise, guest-exec was refused, the pid is not known, or the *)
(* script has not ended by the time it has.                                 *)
NotMounted ==
    /\ Heard /\ ~syncing
    /\ LET reply == Head(fromGuest) IN
        IsAnswer(reply) /\ reply.value \in {"error", "failed"}
    /\ MountNext(mounted, problems \cup {share})

DidNotEnd ==
    /\ Heard /\ ~syncing
    /\ LET reply == Head(fromGuest) IN
        step = "status" /\ IsAnswer(reply) /\ reply.value = "running"
    /\ MountNext(mounted, problems \cup {share})

SyncTimesOut ==
    /\ agent # 0 /\ syncing
    /\ Fail
    /\ UNCHANGED <<vmVars, events, guestVars, opened>>

SocketFails ==              \* errorOccurred()
    /\ agent # 0 /\ ~qemu
    /\ Fail
    /\ UNCHANGED <<vmVars, events, guestVars, opened>>

-----------------------------------------------------------------------------
(* The manager goes and comes back; QEMU ends and is started again.         *)

ManagerQuits ==
    /\ qmp /\ quits < MaxQuits
    /\ quits' = quits + 1
    /\ qmp' = FALSE /\ args' = "none"
    /\ events' = 0
    /\ told' = {} /\ owed' = FALSE
    /\ NoAgent
    /\ PortCloses
    /\ UNCHANGED <<qemu, guestVars, opened>>

(* main() attaches with the arguments of the VM.  If that QEMU did not      *)
(* answer, or was not found yet, start() finds it: attach() without any.    *)
Attach(known) ==
    /\ ~qmp /\ qemu
    /\ qmp' = TRUE /\ args' = known
    /\ told' = {}
    /\ UNCHANGED <<qemu, quits, events, mountVars, portVars, guestVars, opened, owed>>

Start ==
    /\ ~qmp /\ ~qemu
    /\ qemu' = TRUE /\ qmp' = TRUE /\ args' = "vm"
    /\ told' = {}
    /\ mounts' \in SUBSET Fstab
    /\ UNCHANGED <<quits, events, mountVars, portVars, running, programs, succeeded, opened, owed>>

GuestGone ==                \* with all that was under way
    /\ running' = FALSE /\ programs' = {}
    /\ owed' = FALSE
    /\ toGuest' \in Suffixes(toGuest)
    /\ fromGuest' \in Prefixes(fromGuest)

QemuEnds ==
    /\ qemu
    /\ qemu' = FALSE
    /\ mounts' = {}
    /\ running' = FALSE /\ programs' = {} /\ owed' = FALSE
    /\ toGuest' = <<>>
    /\ fromGuest' \in Prefixes(fromGuest)
    /\ UNCHANGED <<qmp, args, quits, events, mountVars, told, succeeded, opened>>

GuestReboots ==
    /\ qemu
    /\ running \/ mounts # {}
    /\ opened < MaxOpens
    /\ GuestGone
    /\ mounts' \in SUBSET Fstab
    /\ UNCHANGED <<vmVars, events, mountVars, told, succeeded, opened>>

-----------------------------------------------------------------------------
(* qemu-ga.                                                                 *)

AgentOpens ==
    /\ qemu /\ ~running /\ opened < MaxOpens
    /\ running' = TRUE
    /\ opened' = opened + 1
    /\ IF qmp THEN events' = events + 1 /\ owed' = (args = "vm") ELSE UNCHANGED <<events, owed>>
    /\ UNCHANGED <<vmVars, mountVars, told, portVars, programs, mounts, succeeded>>

AgentCloses ==              \* it ends, and no longer knows what it started
    /\ running
    /\ GuestGone
    /\ UNCHANGED <<vmVars, events, mountVars, told, mounts, succeeded, opened>>

Reply(request, program, value) ==
    [connection |-> request.connection, command |-> request.command, share |-> request.share,
     pid |-> program, value |-> value]

Answers(value, program) == fromGuest' = Append(fromGuest, Reply(Head(toGuest), program, value))

AgentServes ==
    /\ running /\ toGuest # <<>>
    /\ LET request == Head(toGuest)
           program == [connection |-> request.connection, share |-> request.share]
       IN  \/ request.command = "sync" /\ Answers("sync", NoPid) /\ UNCHANGED programs
           \/ /\ request.command = "exec"
              /\ Answers("pid", program)
              /\ programs' = programs \cup {[pid |-> program, state |-> "running"]}
           \/ request.command = "exec" /\ Answers("error", NoPid) /\ UNCHANGED programs
           \/ /\ request.command = "status"
              /\ \E p \in programs :
                  /\ p.pid = request.pid
                  /\ Answers(p.state, p.pid)
                  /\ programs' = IF p.state = "running" THEN programs ELSE programs \ {p}
           \/ /\ request.command = "status"
              /\ \A p \in programs : p.pid # request.pid
              /\ Answers("error", NoPid)
              /\ UNCHANGED programs
    /\ toGuest' = Tail(toGuest)
    /\ UNCHANGED <<vmVars, events, mountVars, told, running, mounts, succeeded, opened, owed>>

(* kMount: a share that is mounted already is not mounted again.            *)
ScriptEnds(p) ==
    /\ p.state = "running"
    /\ \/ /\ mounts' = mounts \cup {p.pid.share}
          /\ programs' = (programs \ {p}) \cup {[p EXCEPT !.state = "done"]}
          /\ succeeded' = succeeded \cup {p.pid}
       \/ /\ p.pid.share \notin mounts
          /\ programs' = (programs \ {p}) \cup {[p EXCEPT !.state = "failed"]}
          /\ UNCHANGED <<mounts, succeeded>>
    /\ UNCHANGED <<vmVars, events, mountVars, told, portVars, running, opened, owed>>

-----------------------------------------------------------------------------
Read == Skip \/ Ready \/ Started \/ StillRuns \/ Mounted \/ NotMounted \/ DidNotEnd

Next ==
    \/ MountShares \/ Read \/ PollAgain \/ SyncTimesOut \/ SocketFails \/ Cleanup
    \/ ManagerQuits \/ Start \/ \E known \in {"vm", "none"} : Attach(known)
    \/ QemuEnds \/ GuestReboots \/ AgentOpens \/ AgentCloses \/ AgentServes
    \/ \E p \in programs : ScriptEnds(p)

(* The event loop of the manager runs, its clock ends the wait for a script *)
(* that does not end, and an agent that has its port open serves it.        *)
Fairness ==
    /\ WF_vars(MountShares)
    /\ WF_vars(Read)
    /\ WF_vars(PollAgain)
    /\ WF_vars(SyncTimesOut)
    /\ WF_vars(SocketFails)
    /\ WF_vars(AgentServes)
    /\ SF_vars(DidNotEnd)

Spec == Init /\ [][Next]_vars /\ Fairness

-----------------------------------------------------------------------------
(* "Mounted there, or not" (vmrunner.h:60): what is told is either that the *)
(* agent did not answer, or of every share whether it was mounted, and that *)
(* is what the script run for it on this connection said; a reply to what   *)
(* was asked on an earlier connection never passes for it.                  *)
TellsTruly ==
    \A t \in told : ~t.error =>
        /\ t.mounted \cap t.problems = {}
        /\ t.mounted \cup t.problems = Shares
        /\ \A s \in t.mounted : [connection |-> t.connection, share |-> s] \in succeeded

(* "When the agent comes up at boot, the manager has it mount the share     *)
(* there" (README.md:174): of each time that it opens its port to a manager *)
(* which is connected and has the arguments of the VM, something is told,   *)
(* unless the agent goes, whatever became of the mounting before.           *)
EachBootIsTold == owed ~> ~owed

=============================================================================
