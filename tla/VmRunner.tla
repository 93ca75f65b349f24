------------------------------- MODULE VmRunner -------------------------------
(***************************************************************************)
(* VmRunner, src/core/vmrunner.cpp: the run of one VM, from the virtiofsd  *)
(* of its shared folders and QEMU to the end of both, together with what   *)
(* it runs against: the processes, the files of the runtime folder, the    *)
(* user, and the manager itself, which quits or crashes while QEMU goes on *)
(* and is started again.                                                   *)
(*                                                                         *)
(* The manager's code runs on one thread, so each of its handlers (a call  *)
(* of the user, a timer, a signal of QmpClient) is one action.  The QMP    *)
(* connection is what QmpLink promises: link, with the requests (wire) and *)
(* the replies and events (mail) in flight on it.  Time is not modelled: a *)
(* timer that runs may fire at any moment.                                 *)
(*                                                                         *)
(* A run has a number: that of its start(), which its QEMU and its         *)
(* virtiofsd share and which stands for their process ids.  QEMU and       *)
(* virtiofsd are external: they are modelled by what vmrunner.cpp expects  *)
(* of them.                                                                *)
(***************************************************************************)
EXTENDS Naturals, Sequences, FiniteSets

CONSTANTS
    Shares,         \* the folders its vm.args may share, all or some in each run
    MaxRuns,        \* bound: starts that launch something
    MaxQuits,       \* bound: quits and crashes of the manager
    MaxInFlight,    \* bound: requests, and replies and events, in flight on QMP
    ExitsInTime,    \* QEMU ends within kExitTimeoutMs of closing its QMP socket
    QuitsLate,      \* the manager does not go while QEMU boots, or fails to
    StartsClear,    \* no start() before the QEMU that was left running told its status
    Crashes,        \* the manager may be killed, its destructors not run
    KeepsPids       \* no other process gets the pid of a QEMU that ended

ASSUME ConstantsAssumption ==
    /\ IsFiniteSet(Shares)
    /\ MaxRuns \in Nat \ {0}
    /\ MaxQuits \in Nat
    /\ MaxInFlight \in Nat \ {0}
    /\ ExitsInTime \in BOOLEAN
    /\ QuitsLate \in BOOLEAN
    /\ StartsClear \in BOOLEAN
    /\ Crashes \in BOOLEAN
    /\ KeepsPids \in BOOLEAN

VARIABLES
    manager,        \* whether the manager runs
    state,          \* d->state
    phase,          \* d->phase
    pid,            \* d->pid: the run whose QEMU it is, 0 for none
    helpers,        \* d->helpers: the shares whose virtiofsd this run started
    connecting,     \* d->connecting
    stopRequested,  \* d->stopRequested
    killStep,       \* d->killStep
    args,           \* d->args: "none", or those of the "vm"
    poll,           \* d->poll is running
    killTimer,      \* d->killTimer is running
    link,           \* d->qmp: "none", "waiting" or "ready"
    peer,           \* the run whose QMP socket it is connected to, 0 for none
    wire,           \* QMP commands that QEMU has not read
    mail,           \* replies and events the manager has not read
    launched,       \* the number of the last run
    qemu,           \* the stage of the QEMU of each run
    guest,          \* whether its guest is "running" or "paused"
    term,           \* the runs whose QEMU got SIGTERM
    virtiofsd,      \* the stage of the virtiofsd of each run and share
    pidFile,        \* the run whose pid qemu.pid holds, 0 without the file
    qmpSock,        \* the run that listens on qmp.sock, 0 without the file
    fsSocks,        \* the shares whose fs<i>.sock exists
    runDir,         \* the runtime folder exists
    reused,         \* runs whose pid another process has got since
    quits,          \* history: quits and crashes of the manager
    reported,       \* history: failed() was emitted since the last start or attach
    forced,         \* history: the user forced this run off
    victims         \* history: runs whose pid another process had when it was signalled

runnerVars == <<state, phase, pid, helpers, connecting, stopRequested, killStep, args>>
timerVars == <<poll, killTimer>>
linkVars == <<link, peer, wire, mail>>
fileVars == <<pidFile, qmpSock, fsSocks, runDir>>
processVars == <<launched, qemu, guest, term, virtiofsd, reused>>
historyVars == <<quits, reported, forced, victims>>
managerVars == <<manager, runnerVars, timerVars>>
vars == <<managerVars, linkVars, fileVars, processVars, historyVars>>

Runs == 1 .. MaxRuns
None == 0

States == {"Stopped", "Starting", "Running", "Paused", "Stopping"}
Phases == {"Idle", "Helpers", "Qemu", "Attach", "Exiting"}

(* QEMU is launched ("booting"), writes its pid file ("named"), listens on  *)
(* its QMP socket ("serving"), ends ("leaving"), closes the socket          *)
(* ("closed") and is gone, killed by the manager ("killed") or not.         *)
QemuStages ==
    {"none", "booting", "named", "serving", "leaving", "closed", "gone", "killed"}

(* virtiofsd is launched ("starting"), listens on its socket, is connected  *)
(* to its QEMU and is gone.                                                 *)
HelperStages == {"none", "starting", "listening", "connected", "gone"}

Requests == {"query-status", "quit", "stop", "cont"}
Messages == {"running", "paused", "STOP", "RESUME", "SHUTDOWN"}

Init ==
    /\ manager = TRUE
    /\ state = "Stopped"
    /\ phase = "Idle"
    /\ pid = None
    /\ helpers = {}
    /\ connecting = FALSE
    /\ stopRequested = FALSE
    /\ killStep = 0
    /\ args = "vm"          \* main() attached to the VM and found nothing
    /\ poll = FALSE
    /\ killTimer = FALSE
    /\ link = "none"
    /\ peer = None
    /\ wire = <<>>
    /\ mail = <<>>
    /\ launched = 0
    /\ qemu = [r \in Runs |-> "none"]
    /\ guest = [r \in Runs |-> "running"]
    /\ term = {}
    /\ virtiofsd = [r \in Runs |-> [s \in Shares |-> "none"]]
    /\ pidFile = None
    /\ qmpSock = None
    /\ fsSocks = {}
    /\ runDir = FALSE
    /\ reused = {}
    /\ quits = 0
    /\ reported = FALSE
    /\ forced = FALSE
    /\ victims = {}

-----------------------------------------------------------------------------
(* What the code asks of the system.                                       *)

Live(r) == r \in Runs /\ qemu[r] \in {"booting", "named", "serving", "leaving", "closed"}

Alive(r) == Live(r) \/ r \in reused         \* alive(): some process has this pid

AnyProcess(r) == Alive(r)                   \* mutant: whoever has the pid

IsOurs(r) == Live(r)                        \* cmdline(): its arguments hold qmpArg()

(* mutant: a QEMU that does not listen yet is missed                        *)
ListeningPid == IF Alive(pidFile) /\ IsOurs(pidFile) /\ qmpSock # None THEN pidFile ELSE None

RunningPid == IF Alive(pidFile) /\ IsOurs(pidFile) THEN pidFile ELSE None

HelperAlive(r, s) == virtiofsd[r][s] \in {"starting", "listening", "connected"}

IsActive == state # "Stopped"

(* signalIfOurs(): SIGTERM is seen to by QEMU, SIGKILL ends it at once.     *)
SignalQemu(r, signal) ==
    LET hit == IF Alive(r) /\ IsOurs(r) THEN {r} ELSE {} IN
    /\ term' = IF signal = "SIGTERM" THEN term \cup hit ELSE term
    /\ qemu' = IF signal = "SIGKILL"
               THEN [q \in Runs |-> IF q \in hit /\ Live(q) THEN "killed" ELSE qemu[q]]
               ELSE qemu
    /\ victims' = victims \cup {q \in hit : ~Live(q)}

SignalNobody == UNCHANGED <<term, qemu, victims>>

EndListening ==             \* mutant: those that do not listen yet are left
    virtiofsd' = [r \in Runs |-> [s \in Shares |->
        IF r = launched /\ s \in helpers \cap fsSocks /\ HelperAlive(r, s)
        THEN "gone" ELSE virtiofsd[r][s]]]

EndHelpers ==
    virtiofsd' = [r \in Runs |-> [s \in Shares |->
        IF r = launched /\ s \in helpers /\ HelperAlive(r, s)
        THEN "gone" ELSE virtiofsd[r][s]]]

RemoveFiles ==
    /\ pidFile' = None
    /\ qmpSock' = None
    /\ fsSocks' = {}

RemoveRuntimeFiles == RemoveFiles /\ runDir' = FALSE

Unlink ==
    /\ link' = "none"
    /\ peer' = None
    /\ wire' = <<>>
    /\ mail' = <<>>

ConnectTo(socket) ==        \* qmp->connectToSocket(qmpPath())
    /\ link' = "waiting"
    /\ peer' = socket
    /\ wire' = <<>>
    /\ mail' = <<>>

(* cleanup(), but for the processes of the helpers (EndHelpers)             *)
Cleanup ==
    /\ poll' = FALSE
    /\ killTimer' = FALSE
    /\ phase' = "Idle"
    /\ connecting' = FALSE
    /\ Unlink
    /\ helpers' = {}
    /\ pid' = None
    /\ RemoveRuntimeFiles

EndRun(failed) ==           \* cleanup(), setState(Stopped) and, if so, failed()
    /\ Cleanup
    /\ EndHelpers
    /\ state' = "Stopped"
    /\ reported' = (reported \/ failed)
    /\ forced' = FALSE

LaunchUnwatched ==          \* mutant: the timer that tick() stopped stays so
    /\ qemu' = [qemu EXCEPT ![launched'] = "booting"]
    /\ pid' = launched'
    /\ phase' = "Qemu"
    /\ poll' = FALSE

LaunchQemu ==               \* launchQemu(), the launch succeeding
    /\ qemu' = [qemu EXCEPT ![launched'] = "booting"]
    /\ pid' = launched'
    /\ phase' = "Qemu"
    /\ poll' = TRUE

-----------------------------------------------------------------------------
(* start()                                                                 *)

MayStart == manager /\ ~IsActive /\ phase = "Idle"

(* attach(newArgs) to the QEMU that the pid file names                      *)
AttachTo(r, newArgs) ==
    /\ pid' = r
    /\ args' = newArgs
    /\ stopRequested' = FALSE
    /\ killStep' = 0
    /\ phase' = "Attach"
    /\ connecting' = TRUE
    /\ reported' = FALSE
    /\ forced' = FALSE
    /\ ConnectTo(qmpSock)

StartLeftRunning ==         \* attach() is called without the arguments
    /\ MayStart
    /\ RunningPid # None
    /\ AttachTo(RunningPid, "none")
    /\ UNCHANGED <<manager, state, helpers, timerVars, fileVars, processVars, quits, victims>>

BeginRun ==                 \* what start() resets, whether the start fails or not
    /\ MayStart
    /\ RunningPid = None
    /\ StartsClear => link # "ready"
    /\ stopRequested' = FALSE
    /\ killStep' = 0
    /\ args' = "vm"
    /\ UNCHANGED <<manager, guest, reused, quits>>

StartRefused ==             \* no QEMU, no virtiofsd, a shared folder missing...
    /\ BeginRun
    /\ Cleanup
    /\ EndHelpers
    /\ state' = "Stopped"
    /\ reported' = TRUE
    /\ forced' = FALSE
    /\ UNCHANGED <<launched, qemu, term, victims>>

StartQemu ==                \* no shares: QEMU at once
    /\ BeginRun
    /\ launched < MaxRuns
    /\ launched' = launched + 1
    /\ RemoveFiles /\ runDir' = TRUE        \* the command line makes the folder again
    /\ state' = "Starting"
    /\ LaunchQemu
    /\ reported' = FALSE
    /\ forced' = FALSE
    /\ UNCHANGED <<helpers, connecting, killTimer, linkVars, term, virtiofsd, victims>>

StartHelpers ==             \* a virtiofsd per share first
    /\ BeginRun
    /\ launched < MaxRuns
    /\ launched' = launched + 1
    /\ RemoveFiles /\ runDir' = TRUE        \* the command line makes the folder again
    /\ state' = "Starting"
    /\ helpers' \in (SUBSET Shares) \ {{}}
    /\ virtiofsd' = [virtiofsd EXCEPT ![launched'] =
           [s \in Shares |-> IF s \in helpers' THEN "starting" ELSE "none"]]
    /\ phase' = "Helpers"
    /\ poll' = TRUE
    /\ reported' = FALSE
    /\ forced' = FALSE
    /\ UNCHANGED <<pid, connecting, killTimer, linkVars, qemu, term, victims>>

-----------------------------------------------------------------------------
(* tick(), every kPollMs while poll runs.  Its default branch never runs:   *)
(* see PhaseFits.                                                  *)

Ticks(p) == manager /\ poll /\ phase = p

TickHelperFailed ==         \* a virtiofsd ended, or did not open its socket in time
    /\ Ticks("Helpers")
    /\ \E s \in helpers : ~HelperAlive(launched, s) \/ s \notin fsSocks
    /\ EndRun(TRUE)
    /\ UNCHANGED <<manager, stopRequested, killStep, args, launched, qemu, guest, term, reused,
                   quits, victims>>

TickHelpersListen ==        \* every socket is there: QEMU, which may fail to launch
    /\ Ticks("Helpers")
    /\ \A s \in helpers : HelperAlive(launched, s) /\ s \in fsSocks
    /\ \/ /\ UNCHANGED launched
          /\ LaunchQemu
          /\ UNCHANGED <<state, helpers, connecting, killTimer, linkVars, fileVars, virtiofsd,
                         reported, forced>>
       \/ /\ EndRun(TRUE)
          /\ UNCHANGED <<launched, qemu>>
    /\ UNCHANGED <<manager, stopRequested, killStep, args, guest, term, reused, quits, victims>>

FilePid == pidFile          \* mutant: not yet written is taken for ended

QemuPid == IF pidFile # None THEN pidFile ELSE pid

TickQemuEnded ==
    /\ Ticks("Qemu")
    /\ ~Alive(QemuPid)
    /\ EndRun(~stopRequested)
    /\ UNCHANGED <<manager, stopRequested, killStep, args, launched, qemu, guest, term, reused,
                   quits, victims>>

TickQemuRuns ==
    /\ Ticks("Qemu")
    /\ Alive(QemuPid)
    /\ pid' = QemuPid
    /\ \/ /\ ~connecting /\ qmpSock # None
          /\ connecting' = TRUE
          /\ ConnectTo(qmpSock)
       \/ /\ connecting \/ qmpSock = None
          /\ UNCHANGED <<connecting, linkVars>>
    /\ UNCHANGED <<manager, state, phase, helpers, stopRequested, killStep, args, timerVars,
                   fileVars, processVars, historyVars>>

(* exited(): QEMU is gone, or it has taken longer than kExitTimeoutMs       *)
TickExited ==
    /\ Ticks("Exiting")
    /\ ~Alive(pid) \/ ~ExitsInTime \/ qemu[pid] # "closed"
    /\ EndRun(~stopRequested)
    /\ UNCHANGED <<manager, stopRequested, killStep, args, launched, qemu, guest, term, reused,
                   quits, victims>>

-----------------------------------------------------------------------------
(* The signals of QmpClient.                                               *)

Serving(r) == r \in Runs /\ qemu[r] \in {"serving", "leaving"}

NoRequests == <<>>          \* mutant: the state is left to the events

FirstRequests == <<"query-status">>

QmpReady ==                 \* qmpReady(): ask for the status
    /\ manager
    /\ link = "waiting"
    /\ Serving(peer)
    /\ link' = "ready"
    /\ poll' = FALSE
    /\ phase' = "Idle"
    /\ connecting' = FALSE
    /\ wire' = FirstRequests
    /\ UNCHANGED <<manager, state, pid, helpers, stopRequested, killStep, args, killTimer,
                   peer, mail, fileVars, processVars, historyVars>>

QmpFailed ==                \* qmpFailed(): nobody listens any more
    /\ manager
    /\ link = "waiting"
    /\ ~Serving(peer)
    /\ Unlink
    /\ connecting' = FALSE
    /\ \/ /\ phase # "Attach"
          /\ UNCHANGED <<phase, pid, fileVars, reported>>
       \/ /\ phase = "Attach" /\ Alive(pid)
          /\ phase' = "Idle"
          /\ reported' = TRUE
          /\ UNCHANGED <<pid, fileVars>>
       \/ /\ phase = "Attach" /\ ~Alive(pid)
          /\ phase' = "Idle"
          /\ pid' = None
          /\ RemoveRuntimeFiles
          /\ UNCHANGED reported
    /\ UNCHANGED <<manager, state, helpers, stopRequested, killStep, args, timerVars,
                   processVars, quits, forced, victims>>

(* qmpClosed().  What QEMU wrote is read first, unless writing to a closed  *)
(* socket broke the connection.                                             *)
QmpClosed ==
    /\ manager
    /\ link = "ready"
    /\ ~Serving(peer)
    /\ mail = <<>> \/ wire # <<>>
    /\ Unlink
    /\ killTimer' = FALSE
    /\ phase' = "Exiting"
    /\ state' = "Stopping"
    /\ poll' = TRUE
    /\ UNCHANGED <<manager, pid, helpers, connecting, stopRequested, killStep, args, fileVars,
                   processVars, historyVars>>

ShownAnyway(s) == s         \* mutant: a late event brings a stopping VM back

Shown(s) == IF state = "Stopping" THEN state ELSE s

(* event(), and the callback of query-status: neither brings a VM back that *)
(* is stopping.  SUSPEND and WAKEUP are as STOP and RESUME.                 *)
QmpMessage ==
    /\ manager
    /\ link = "ready"
    /\ mail # <<>>
    /\ mail' = Tail(mail)
    /\ LET m == Head(mail) IN
       \/ /\ m = "SHUTDOWN"
          /\ stopRequested' = TRUE
          /\ state' = "Stopping"
       \/ /\ m \in {"STOP", "paused"}
          /\ state' = Shown("Paused")
          /\ UNCHANGED stopRequested
       \/ /\ m \in {"RESUME", "running"}
          /\ state' = Shown("Running")
          /\ UNCHANGED stopRequested
    /\ UNCHANGED <<manager, phase, pid, helpers, connecting, killStep, args, timerVars, link,
                   peer, wire, fileVars, processVars, historyVars>>

-----------------------------------------------------------------------------
(* The user, and the timer behind forceOff().                              *)

Ask(request) ==
    /\ Len(wire) < MaxInFlight
    /\ wire' = Append(wire, request)

PauseOrResume ==            \* pause(), resume(): powerdown() and reset() change nothing here
    /\ manager
    /\ IsActive
    /\ link = "ready"
    /\ \E request \in {"stop", "cont"} : Ask(request)
    /\ UNCHANGED <<managerVars, link, peer, mail, fileVars, processVars, historyVars>>

KillsNever(step) == FALSE   \* mutant: SIGTERM is the last resort

KillsLater(step) == step = 0

(* escalate(): SIGTERM, then SIGKILL                                        *)
Escalate(step) ==
    \/ /\ ~Alive(pid)
       /\ SignalNobody
       /\ killStep' = step
       /\ UNCHANGED killTimer
    \/ /\ Alive(pid)
       /\ SignalQemu(pid, IF step = 0 THEN "SIGTERM" ELSE "SIGKILL")
       /\ killStep' = step + 1
       /\ killTimer' = KillsLater(step)

KillTimeout ==
    /\ manager
    /\ killTimer
    /\ \/ /\ ~Alive(pid)
          /\ SignalNobody
          /\ killTimer' = FALSE
          /\ UNCHANGED killStep
       \/ Alive(pid) /\ Escalate(killStep)
    /\ UNCHANGED <<manager, state, phase, pid, helpers, connecting, stopRequested, args, poll,
                   linkVars, fileVars, launched, guest, virtiofsd, reused, quits, reported,
                   forced>>

ForceOffHelpers ==          \* QEMU is not running yet
    /\ manager
    /\ phase = "Helpers"
    /\ stopRequested' = TRUE
    /\ EndRun(FALSE)
    /\ UNCHANGED <<manager, killStep, args, launched, qemu, guest, term, reused, quits, victims>>

ForceOff ==
    /\ manager
    /\ phase \notin {"Helpers", "Exiting"}
    /\ IsActive
    /\ stopRequested' = TRUE
    /\ forced' = TRUE
    /\ \/ /\ link = "ready"
          /\ killStep' = 0
          /\ Ask("quit")
          /\ state' = "Stopping"
          /\ killTimer' = TRUE
          /\ SignalNobody
       \/ /\ link # "ready"
          /\ Escalate(0)
          /\ UNCHANGED <<state, wire>>
    /\ UNCHANGED <<manager, phase, pid, helpers, connecting, args, poll, link, peer, mail,
                   fileVars, launched, guest, virtiofsd, reused, quits, reported>>

-----------------------------------------------------------------------------
(* The manager quits or crashes, and is started again.                     *)

ResetRunner ==              \* there is no VmRunner any more
    /\ state' = "Stopped"
    /\ phase' = "Idle"
    /\ pid' = None
    /\ helpers' = {}
    /\ connecting' = FALSE
    /\ stopRequested' = FALSE
    /\ killStep' = 0
    /\ args' = "none"
    /\ poll' = FALSE
    /\ killTimer' = FALSE
    /\ Unlink
    /\ reported' = FALSE
    /\ forced' = FALSE

Leaves ==
    /\ manager
    /\ quits < MaxQuits
    /\ QuitsLate /\ phase = "Qemu" => Live(pid) /\ qemu[pid] # "booting"
    /\ manager' = FALSE
    /\ quits' = quits + 1
    /\ ResetRunner
    /\ UNCHANGED <<launched, qemu, guest, term, reused, victims>>

ManagerQuits ==             \* ~VmRunner()
    /\ Leaves
    /\ \/ /\ phase = "Helpers"
          /\ EndHelpers
          /\ RemoveRuntimeFiles
       \/ /\ phase # "Helpers"
          /\ UNCHANGED <<virtiofsd, fileVars>>

ManagerCrashes ==           \* as a quit, but in the phase in which a quit cleans up
    /\ Crashes
    /\ phase = "Helpers"
    /\ Leaves
    /\ UNCHANGED <<virtiofsd, fileVars>>

ManagerStarts ==            \* main(): attach(args) to whatever still runs
    /\ ~manager
    /\ manager' = TRUE
    /\ \/ /\ RunningPid # None
          /\ AttachTo(RunningPid, "vm")
          /\ UNCHANGED fileVars
       \/ /\ RunningPid = None
          /\ args' = "vm"
          /\ RemoveRuntimeFiles
          /\ UNCHANGED <<pid, stopRequested, killStep, phase, connecting, linkVars, reported,
                         forced>>
    /\ UNCHANGED <<state, helpers, timerVars, processVars, quits, victims>>

-----------------------------------------------------------------------------
(* QEMU, virtiofsd and the system.                                         *)

Heard(r, m) ==              \* QEMU tells its QMP client
    mail' = IF link = "ready" /\ peer = r THEN Append(mail, m) ELSE mail

Stage(r, from, to) ==
    /\ qemu[r] \in from
    /\ qemu' = [qemu EXCEPT ![r] = to]

External == UNCHANGED <<managerVars, launched, reused, historyVars>>

QemuWritesPid(r) ==
    /\ Stage(r, {"booting"}, "named")
    /\ runDir
    /\ pidFile' = r
    /\ virtiofsd' = [virtiofsd EXCEPT ![r] = [s \in Shares |->
           IF @[s] = "listening" THEN "connected" ELSE @[s]]]
    /\ External
    /\ UNCHANGED <<linkVars, qmpSock, fsSocks, runDir, guest, term>>

QemuListens(r) ==           \* with -S the guest starts paused
    /\ Stage(r, {"named"}, "serving")
    /\ runDir
    /\ qmpSock' = r
    /\ \E g \in {"running", "paused"} : guest' = [guest EXCEPT ![r] = g]
    /\ External
    /\ UNCHANGED <<linkVars, pidFile, fsSocks, runDir, term, virtiofsd>>

QemuTurns(r, g) ==          \* the guest goes to g, on its own or as asked
    /\ guest' = [guest EXCEPT ![r] = g]
    /\ \/ guest[r] = g /\ UNCHANGED mail
       \/ guest[r] # g /\ Heard(r, IF g = "paused" THEN "STOP" ELSE "RESUME")
    /\ UNCHANGED qemu

QemuGuestChanges(r) ==      \* it suspends or wakes up, or a debugger stops it
    /\ qemu[r] = "serving"
    /\ Len(mail) < MaxInFlight
    /\ \E g \in {"running", "paused"} : guest[r] # g /\ QemuTurns(r, g)
    /\ External
    /\ UNCHANGED <<link, peer, wire, fileVars, term, virtiofsd>>

QemuHandles ==              \* the oldest request
    /\ link = "ready"
    /\ peer \in Runs
    /\ qemu[peer] = "serving"
    /\ wire # <<>>
    /\ Len(mail) < MaxInFlight
    /\ wire' = Tail(wire)
    /\ LET request == Head(wire) IN
       \/ request = "query-status" /\ Heard(peer, guest[peer]) /\ UNCHANGED <<guest, qemu>>
       \/ request = "stop" /\ QemuTurns(peer, "paused")
       \/ request = "cont" /\ QemuTurns(peer, "running")
       \/ /\ request = "quit"
          /\ Heard(peer, "SHUTDOWN")
          /\ Stage(peer, {"serving"}, "leaving")
          /\ UNCHANGED guest
    /\ External
    /\ UNCHANGED <<link, peer, fileVars, term, virtiofsd>>

QemuShutsDown(r) ==         \* the guest powered off, or SIGTERM
    /\ Stage(r, {"serving"}, "leaving")
    /\ Len(mail) < MaxInFlight
    /\ Heard(r, "SHUTDOWN")
    /\ External
    /\ UNCHANGED <<link, peer, wire, fileVars, guest, term, virtiofsd>>

QemuCloses(r) ==
    /\ Stage(r, {"leaving"}, "closed")
    /\ External
    /\ UNCHANGED <<linkVars, fileVars, guest, term, virtiofsd>>

QemuExits(r) ==             \* and removes its files
    /\ Stage(r, {"closed"}, "gone")
    /\ pidFile' = IF pidFile = r THEN None ELSE pidFile
    /\ qmpSock' = IF qmpSock = r THEN None ELSE qmpSock
    /\ External
    /\ UNCHANGED <<linkVars, fsSocks, runDir, guest, term, virtiofsd>>

QemuDies(r) ==              \* it cannot start, it crashes, SIGTERM before it listens...
    /\ Stage(r, {"booting", "named", "serving", "leaving", "closed"}, "gone")
    /\ External
    /\ UNCHANGED <<linkVars, fileVars, guest, term, virtiofsd>>

VirtiofsdListens(s) ==
    /\ launched # 0
    /\ virtiofsd[launched][s] = "starting"
    /\ runDir
    /\ virtiofsd' = [virtiofsd EXCEPT ![launched][s] = "listening"]
    /\ fsSocks' = fsSocks \cup {s}
    /\ External
    /\ UNCHANGED <<linkVars, pidFile, qmpSock, runDir, qemu, guest, term>>

VirtiofsdEnds(r, s) ==      \* it fails, or its QEMU is gone
    /\ \/ virtiofsd[r][s] = "starting"
       \/ virtiofsd[r][s] = "connected" /\ ~Live(r)
    /\ virtiofsd' = [virtiofsd EXCEPT ![r][s] = "gone"]
    /\ External
    /\ UNCHANGED <<linkVars, fileVars, qemu, guest, term>>

PidReused(r) ==
    /\ ~KeepsPids
    /\ qemu[r] \in {"gone", "killed"}
    /\ r \notin reused
    /\ reused' = reused \cup {r}
    /\ UNCHANGED <<managerVars, linkVars, fileVars, launched, qemu, guest, term, virtiofsd,
                   historyVars>>

-----------------------------------------------------------------------------
Tick ==
    \/ TickHelperFailed \/ TickHelpersListen
    \/ TickQemuEnded \/ TickQemuRuns
    \/ TickExited

QmpSignal == QmpReady \/ QmpFailed \/ QmpClosed \/ QmpMessage

User ==
    \/ StartLeftRunning \/ StartRefused \/ StartQemu \/ StartHelpers
    \/ PauseOrResume \/ ForceOffHelpers \/ ForceOff
    \/ ManagerQuits \/ ManagerCrashes \/ ManagerStarts

Qemu(r) ==
    \/ QemuWritesPid(r) \/ QemuListens(r) \/ QemuGuestChanges(r) \/ QemuShutsDown(r)
    \/ QemuCloses(r) \/ QemuExits(r) \/ QemuDies(r) \/ PidReused(r)

Next ==
    \/ Tick \/ QmpSignal \/ KillTimeout \/ User
    \/ QemuHandles
    \/ \E r \in Runs : Qemu(r)
    \/ \E s \in Shares : VirtiofsdListens(s)
    \/ \E r \in Runs, s \in Shares : VirtiofsdEnds(r, s)

SafeSpec == Init /\ [][Next]_vars

(***************************************************************************)
(* The event loop of the manager runs: its timers fire and it handles what *)
(* arrives.  QEMU may hang at any stage, virtiofsd too, and the user need  *)
(* not do anything.                                                        *)
(***************************************************************************)
Fairness ==
    /\ WF_vars(Tick)
    /\ WF_vars(KillTimeout)
    /\ WF_vars(QmpFailed)
    /\ WF_vars(QmpClosed)
    /\ WF_vars(QmpMessage)

Spec == SafeSpec /\ Fairness
-----------------------------------------------------------------------------
(* Properties.                                                             *)

FlagTypes ==
    /\ manager \in BOOLEAN
    /\ connecting \in BOOLEAN
    /\ stopRequested \in BOOLEAN
    /\ poll \in BOOLEAN
    /\ killTimer \in BOOLEAN
    /\ runDir \in BOOLEAN
    /\ reported \in BOOLEAN
    /\ forced \in BOOLEAN

RunnerTypes ==
    /\ state \in States
    /\ phase \in Phases
    /\ pid \in Runs \cup {None}
    /\ helpers \subseteq Shares
    /\ killStep \in 0 .. 2
    /\ killTimer => killStep < 2       \* a signal is left to send
    /\ args \in {"none", "vm"}

LinkTypes ==
    /\ link \in {"none", "waiting", "ready"}
    /\ peer \in Runs \cup {None}
    /\ wire \in Seq(Requests)
    /\ mail \in Seq(Messages)

ProcessTypes ==
    /\ launched \in Runs \cup {0}
    /\ qemu \in [Runs -> QemuStages]
    /\ guest \in [Runs -> {"running", "paused"}]
    /\ virtiofsd \in [Runs -> [Shares -> HelperStages]]
    /\ term \subseteq Runs
    /\ reused \subseteq Runs
    /\ victims \subseteq Runs

FileTypes ==
    /\ pidFile \in Runs \cup {None}
    /\ qmpSock \in Runs \cup {None}
    /\ fsSocks \subseteq Shares
    /\ quits \in Nat

TypeOK == FlagTypes /\ RunnerTypes /\ LinkTypes /\ ProcessTypes /\ FileTypes

(***************************************************************************)
(* tick() runs as long as the runner waits for processes to start or end,  *)
(* and no longer: a phase that lost its timer would last forever.  The     *)
(* helpers and QEMU are waited for while Starting, the end of QEMU while   *)
(* Stopping; a VM with neither wait has its QMP, and loses it only to      *)
(* Exiting; without a manager nothing of this is left.                     *)
(***************************************************************************)
PhaseFits ==
    /\ poll <=> phase \in {"Helpers", "Qemu", "Exiting"}
    /\ phase \in {"Helpers", "Qemu"} => state = "Starting"
    /\ phase = "Exiting" => state = "Stopping"
    /\ phase = "Attach" => ~IsActive /\ link = "waiting"
    /\ IsActive /\ phase = "Idle" => link = "ready"
    /\ link = "ready" => phase = "Idle"
    /\ link = "waiting" => phase \in {"Qemu", "Attach"}
    /\ ~manager => ~IsActive /\ phase = "Idle" /\ link = "none"

(***************************************************************************)
(* What the manager shows is what QEMU does: once it has read what QEMU    *)
(* wrote and its requests are answered, the state is that of the guest,    *)
(* however query-status crossed with the events (qmpReady(), event()).     *)
(***************************************************************************)
ShowsTheGuest ==
    (link = "ready" /\ wire = <<>> /\ mail = <<>> /\ qemu[peer] = "serving")
        => state = IF guest[peer] = "running" THEN "Running" ELSE "Paused"

(***************************************************************************)
(* Only a QEMU of this VM is ever signalled, whoever got its pid since,    *)
(* and it is never killed before SIGTERM asked it to end (signalIfOurs(),  *)
(* escalate()), however often the user forces it off.                      *)
(***************************************************************************)
SignalsWithCare ==
    /\ victims = {}
    /\ \A r \in Runs : qemu[r] = "killed" => r \in term

(***************************************************************************)
(* The states go as vmrunner.h says, and no run ends without its end       *)
(* having been asked for or the user being told (see VmLifecycle).         *)
(***************************************************************************)
Lifecycle == INSTANCE VmLifecycle WITH asked <- stopRequested, told <- reported

KeepsLifecycle == Lifecycle!Spec

(***************************************************************************)
(* A QEMU that runs is never taken for a stopped VM: the manager knows its *)
(* process, and is connecting to it, or has its QMP, or told the user that *)
(* it does not answer.                                                     *)
(***************************************************************************)
NoQemuForgotten ==
    \A r \in Runs :
        manager /\ ~IsActive /\ Live(r)
            => pid = r /\ (phase = "Attach" \/ link = "ready" \/ reported)

(* Two QEMUs never run on the disks of the VM.                             *)
OneQemu == \A q, r \in Runs : Live(q) /\ Live(r) => q = r

(***************************************************************************)
(* Whatever is started, attached to or forced off, and however the manager *)
(* goes and comes back: at most one QEMU, and one that is known.           *)
(***************************************************************************)
OneKnownQemu == OneQemu /\ NoQemuForgotten

(***************************************************************************)
(* "QEMU runs on without the manager, but not virtiofsd waiting for a QEMU *)
(* that will never come" (vmrunner.cpp:616): none does once the manager is *)
(* gone, nor once the start has failed or was forced off.                  *)
(***************************************************************************)
NoStrandedHelper ==
    ~manager \/ (~IsActive /\ phase = "Idle") =>
        \A r \in Runs, s \in Shares :
            virtiofsd[r][s] \in {"starting", "listening"} => Live(r)

(***************************************************************************)
(* forceOff() ends the run even if QEMU and virtiofsd never do anything    *)
(* again of their own: at the latest SIGKILL does.                         *)
(***************************************************************************)
ForceOffEnds == forced ~> ~IsActive

(***************************************************************************)
(* "VMs keep running when you close the manager, and it picks them up      *)
(* again" (README.md:21): a manager that starts knows the QEMU that runs.  *)
(***************************************************************************)
PicksUpAgain == [][~manager /\ manager' => \A r \in Runs : Live(r)' => pid' = r]_vars

(***************************************************************************)
(* "The run is over: QEMU is gone, or never started" (vmrunner.cpp:342):   *)
(* so it is when the VM becomes Stopped.                                   *)
(***************************************************************************)
GoneWhenOver == [][IsActive /\ ~IsActive' /\ manager' => \A r \in Runs : ~Live(r)']_vars
=============================================================================
