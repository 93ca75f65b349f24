--------------------------- MODULE VmRunnerProofs ---------------------------
(***************************************************************************)
(* Proofs about VmRunner, for every number of runs, of shared folders, of  *)
(* quits and of messages in flight.                                        *)
(*                                                                         *)
(* Four parts: the phases and the life cycle; the types; what is shown of  *)
(* the guest (InStep); and the QEMU and virtiofsd of the last run, which   *)
(* the manager knows or finds by the pid file (RInv).  The last part needs *)
(* all it says at once: cleanup() may remove the files because no QEMU is  *)
(* left, none is left because the pid told it ended, and the pid is right  *)
(* because the file it was read from was.                                  *)
(***************************************************************************)
EXTENDS VmRunner, TLAPS

-----------------------------------------------------------------------------
(* PhaseFits is inductive as it stands.                                    *)

LEMMA InitPhase == Init => PhaseFits
  BY DEF Init, PhaseFits, IsActive

LEMMA StepPhase ==
    ASSUME StartsClear = TRUE, PhaseFits, [Next]_vars
    PROVE  PhaseFits'
<1> USE DEF PhaseFits, IsActive
<1>1. CASE StartLeftRunning
  BY <1>1 DEF StartLeftRunning, MayStart, AttachTo, ConnectTo, timerVars
<1>2. CASE StartRefused
  BY <1>2 DEF StartRefused, BeginRun, MayStart, Cleanup, Unlink
<1>3. CASE StartQemu
  BY <1>3 DEF StartQemu, BeginRun, MayStart, LaunchQemu, linkVars
<1>4. CASE StartHelpers
  BY <1>4 DEF StartHelpers, BeginRun, MayStart, linkVars
<1>5. CASE TickHelperFailed \/ TickQemuEnded \/ TickExited
  BY <1>5 DEF TickHelperFailed, TickQemuEnded, TickExited, Ticks, EndRun, Cleanup, Unlink
<1>6. CASE TickHelpersListen
  BY <1>6 DEF TickHelpersListen, Ticks, LaunchQemu, EndRun, Cleanup, Unlink, linkVars
<1>7. CASE TickQemuRuns
  BY <1>7 DEF TickQemuRuns, Ticks, ConnectTo, linkVars, timerVars
<1>8. CASE QmpReady
  BY <1>8 DEF QmpReady
<1>9. CASE QmpFailed
  BY <1>9 DEF QmpFailed, Unlink, timerVars
<1>10. CASE QmpClosed
  BY <1>10 DEF QmpClosed, Unlink
<1>11. CASE QmpMessage
  BY <1>11 DEF QmpMessage, Shown, timerVars
<1>12. CASE PauseOrResume
  BY <1>12 DEF PauseOrResume, managerVars, runnerVars, timerVars
<1>13. CASE KillTimeout
  BY <1>13 DEF KillTimeout, linkVars
<1>14. CASE ForceOffHelpers
  BY <1>14 DEF ForceOffHelpers, EndRun, Cleanup, Unlink
<1>15. CASE ForceOff
  BY <1>15 DEF ForceOff
<1>16. CASE ManagerQuits \/ ManagerCrashes
  BY <1>16 DEF ManagerQuits, ManagerCrashes, Leaves, ResetRunner, Unlink
<1>17. CASE ManagerStarts
  BY <1>17 DEF ManagerStarts, AttachTo, ConnectTo, timerVars, linkVars
<1>18. CASE QemuHandles
  BY <1>18 DEF QemuHandles, External, managerVars, runnerVars, timerVars
<1>19. ASSUME NEW r \in Runs, Qemu(r) PROVE PhaseFits'
  BY <1>19 DEF Qemu, QemuWritesPid, QemuListens, QemuGuestChanges, QemuShutsDown, QemuCloses,
               QemuExits, QemuDies, PidReused, External, managerVars, runnerVars, timerVars,
               linkVars
<1>20. CASE \E s \in Shares : VirtiofsdListens(s)
  BY <1>20 DEF VirtiofsdListens, External, managerVars, runnerVars, timerVars, linkVars
<1>21. CASE \E r \in Runs, s \in Shares : VirtiofsdEnds(r, s)
  BY <1>21 DEF VirtiofsdEnds, External, managerVars, runnerVars, timerVars, linkVars
<1>22. CASE UNCHANGED vars
  BY <1>22 DEF vars, managerVars, runnerVars, timerVars, linkVars
<1> QED
  BY <1>1, <1>2, <1>3, <1>4, <1>5, <1>6, <1>7, <1>8, <1>9, <1>10, <1>11, <1>12, <1>13,
     <1>14, <1>15, <1>16, <1>17, <1>18, <1>19, <1>20, <1>21, <1>22
     DEF Next, Tick, QmpSignal, User

(***************************************************************************)
(* Unless the user starts the VM while an attached QEMU has not told its   *)
(* status (StartsClear), the phases of VmRunner fit its state, its timer,  *)
(* its connection and the manager: no wait of tick() is left without its   *)
(* timer, and an active VM that waits for no process has its QMP.          *)
(***************************************************************************)
THEOREM PhasesFit ==
    ASSUME StartsClear = TRUE
    PROVE  SafeSpec => []PhaseFits
<1>1. PhaseFits /\ [Next]_vars => PhaseFits'
  BY StepPhase
<1> QED
  BY <1>1, InitPhase, PTL DEF SafeSpec

-----------------------------------------------------------------------------
(* The runner keeps the promises of VmLifecycle.                           *)

LEMMA InitLifecycle == Init => Lifecycle!Init
  BY DEF Init, Lifecycle!Init

LEMMA StepLifecycle ==
    ASSUME PhaseFits, [Next]_vars
    PROVE  [Lifecycle!Next]_(Lifecycle!vars)
<1> USE DEF IsActive
<1>1. CASE StartLeftRunning
  <2>1. Lifecycle!Begin
    BY <1>1 DEF StartLeftRunning, MayStart, AttachTo, Lifecycle!Begin
  <2> QED  BY <2>1 DEF Lifecycle!Next
<1>2. CASE StartRefused
  <2>1. Lifecycle!Refuse
    BY <1>2 DEF StartRefused, BeginRun, MayStart, Lifecycle!Refuse
  <2> QED  BY <2>1 DEF Lifecycle!Next
<1>3. CASE StartQemu \/ StartHelpers
  <2>1. Lifecycle!Begin
    BY <1>3 DEF StartQemu, StartHelpers, BeginRun, MayStart, Lifecycle!Begin
  <2> QED  BY <2>1 DEF Lifecycle!Next
<1>4. CASE TickHelperFailed
  <2>1. Lifecycle!End
    BY <1>4 DEF TickHelperFailed, Ticks, EndRun, PhaseFits, Lifecycle!End
  <2> QED  BY <2>1 DEF Lifecycle!Next
<1>5. CASE TickHelpersListen
  <2>1. Lifecycle!End \/ UNCHANGED Lifecycle!vars
    BY <1>5 DEF TickHelpersListen, Ticks, EndRun, PhaseFits, Lifecycle!End, Lifecycle!vars
  <2> QED  BY <2>1 DEF Lifecycle!Next
<1>6. CASE TickQemuEnded \/ TickExited
  <2>1. manager /\ phase \in {"Qemu", "Exiting"} /\ UNCHANGED <<manager, stopRequested>>
    BY <1>6 DEF TickQemuEnded, TickExited, Ticks
  <2>2. state' = "Stopped" /\ reported' = (reported \/ ~stopRequested)
    BY <1>6 DEF TickQemuEnded, TickExited, EndRun
  <2>3. (stopRequested => stopRequested') /\ (reported => reported')
        /\ (stopRequested' \/ reported')
    BY <2>1, <2>2
  <2>4. Lifecycle!End
    BY <2>1, <2>2, <2>3 DEF PhaseFits, Lifecycle!End
  <2> QED  BY <2>4 DEF Lifecycle!Next
<1>7. CASE TickQemuRuns \/ QmpReady
  BY <1>7 DEF TickQemuRuns, QmpReady, historyVars, Lifecycle!vars
<1>8. CASE QmpFailed
  <2>1. Lifecycle!Refuse \/ UNCHANGED Lifecycle!vars
    BY <1>8 DEF QmpFailed, PhaseFits, Lifecycle!Refuse, Lifecycle!vars
  <2> QED  BY <2>1 DEF Lifecycle!Next
<1>9. CASE QmpClosed
  <2>1. Lifecycle!LoseQmp
    BY <1>9 DEF QmpClosed, historyVars, Lifecycle!LoseQmp
  <2> QED  BY <2>1 DEF Lifecycle!Next
<1>10. CASE QmpMessage
  <2>1. Lifecycle!AskToStop \/ Lifecycle!Show \/ UNCHANGED Lifecycle!vars
    BY <1>10 DEF QmpMessage, Shown, historyVars, Lifecycle!AskToStop, Lifecycle!Show,
                 Lifecycle!Shown, Lifecycle!vars
  <2> QED  BY <2>1 DEF Lifecycle!Next
<1>11. CASE PauseOrResume \/ KillTimeout
  BY <1>11 DEF PauseOrResume, KillTimeout, managerVars, runnerVars, historyVars,
               Lifecycle!vars
<1>12. CASE ForceOffHelpers
  <2>1. Lifecycle!End
    BY <1>12 DEF ForceOffHelpers, EndRun, PhaseFits, Lifecycle!End
  <2> QED  BY <2>1 DEF Lifecycle!Next
<1>13. CASE ForceOff
  <2>1. Lifecycle!AskToStop
    BY <1>13 DEF ForceOff, Lifecycle!AskToStop
  <2> QED  BY <2>1 DEF Lifecycle!Next
<1>14. CASE ManagerQuits \/ ManagerCrashes
  <2>1. Lifecycle!Leave
    BY <1>14 DEF ManagerQuits, ManagerCrashes, Leaves, ResetRunner, Lifecycle!Leave
  <2> QED  BY <2>1 DEF Lifecycle!Next
<1>15. CASE ManagerStarts
  <2>1. Lifecycle!Return
    BY <1>15 DEF ManagerStarts, AttachTo, PhaseFits, Lifecycle!Return
  <2> QED  BY <2>1 DEF Lifecycle!Next
<1>16. CASE QemuHandles \/ (\E s \in Shares : VirtiofsdListens(s))
  BY <1>16 DEF QemuHandles, VirtiofsdListens, External, managerVars, runnerVars, historyVars,
               Lifecycle!vars
<1>17. ASSUME NEW r \in Runs, Qemu(r) \/ (\E s \in Shares : VirtiofsdEnds(r, s))
       PROVE  UNCHANGED Lifecycle!vars
  BY <1>17 DEF Qemu, QemuWritesPid, QemuListens, QemuGuestChanges, QemuShutsDown, QemuCloses,
               QemuExits, QemuDies, PidReused, VirtiofsdEnds, External, managerVars,
               runnerVars, historyVars, Lifecycle!vars
<1>18. CASE UNCHANGED vars
  BY <1>18 DEF vars, managerVars, runnerVars, historyVars, Lifecycle!vars
<1> QED
  BY <1>1, <1>2, <1>3, <1>4, <1>5, <1>6, <1>7, <1>8, <1>9, <1>10, <1>11, <1>12, <1>13,
     <1>14, <1>15, <1>16, <1>17, <1>18
     DEF Next, Tick, QmpSignal, User

(***************************************************************************)
(* VmRunner implements VmLifecycle: a run ends only from Starting or       *)
(* Stopping, never from a VM shown to run, and only with its end asked for *)
(* or the user told; a VM that is Stopping shows nothing else until it is  *)
(* Stopped.                                                                *)
(***************************************************************************)
THEOREM ImplementsLifecycle ==
    ASSUME StartsClear = TRUE
    PROVE  SafeSpec => KeepsLifecycle
<1>1. PhaseFits /\ [Next]_vars => [Lifecycle!Next]_(Lifecycle!vars)
  BY StepLifecycle
<1>2. SafeSpec => []PhaseFits
  BY PhasesFit
<1> QED
  BY <1>1, <1>2, InitLifecycle, PTL DEF SafeSpec, KeepsLifecycle, Lifecycle!Spec

-----------------------------------------------------------------------------
(* TypeOK is inductive: the number of the run is bounded by the guard of   *)
(* the starts, and the timer behind forceOff() does not run once SIGKILL   *)
(* was sent.                                                               *)

LEMMA PidsAreRuns ==
    ASSUME TypeOK
    PROVE  /\ RunningPid \in Runs \cup {None}
           /\ QemuPid \in Runs \cup {None}
  BY DEF TypeOK, FileTypes, RunnerTypes, RunningPid, QemuPid

LEMMA SignalType ==
    ASSUME TypeOK, NEW r, NEW signal, SignalQemu(r, signal) \/ SignalNobody
    PROVE  /\ term' \subseteq Runs
           /\ qemu' \in [Runs -> QemuStages]
           /\ victims' \subseteq Runs
<1>1. CASE SignalNobody
  BY <1>1 DEF TypeOK, ProcessTypes, SignalNobody
<1>2. CASE SignalQemu(r, signal)
  BY <1>2 DEF TypeOK, ProcessTypes, SignalQemu, Alive, IsOurs, Live, QemuStages
<1> QED  BY <1>1, <1>2

LEMMA EndHelpersType ==
    ASSUME TypeOK, EndHelpers
    PROVE  virtiofsd' \in [Runs -> [Shares -> HelperStages]]
  BY DEF TypeOK, ProcessTypes, EndHelpers, HelperStages

LEMMA InitType == Init => TypeOK
<1>1. /\ 0 \in Nat
      /\ <<>> \in Seq(Requests)
      /\ <<>> \in Seq(Messages)
  OBVIOUS
<1>2. Init => FlagTypes
  BY DEF Init, FlagTypes
<1>3. Init => RunnerTypes
  BY DEF Init, RunnerTypes, States, Phases, None
<1>4. Init => FileTypes
  BY <1>1 DEF Init, FileTypes, None
<1>5. Init => LinkTypes
  BY <1>1 DEF Init, LinkTypes, None
<1>6. Init => ProcessTypes
  BY <1>1 DEF Init, ProcessTypes, QemuStages, HelperStages
<1> QED
  BY <1>2, <1>3, <1>4, <1>5, <1>6 DEF TypeOK

LEMMA StepFlagTypes ==
    ASSUME TypeOK, [Next]_vars
    PROVE  FlagTypes'
<1> USE DEF TypeOK, FlagTypes, RunnerTypes, managerVars, runnerVars, timerVars, linkVars,
         fileVars, processVars, historyVars
<1>1. CASE StartLeftRunning \/ StartRefused \/ StartQemu \/ StartHelpers
  BY <1>1, PidsAreRuns, EndHelpersType, ConstantsAssumption DEF StartLeftRunning,
         StartRefused, StartQemu, StartHelpers, BeginRun, AttachTo, ConnectTo, LaunchQemu,
         Cleanup, Unlink, RemoveRuntimeFiles, RemoveFiles
<1>2. CASE
         TickHelperFailed \/ TickQemuEnded \/ TickExited \/ TickHelpersListen \/ TickQemuRuns
  BY <1>2, PidsAreRuns, EndHelpersType DEF TickHelperFailed, TickQemuEnded, TickExited,
         TickHelpersListen, TickQemuRuns, LaunchQemu, ConnectTo, EndRun, Cleanup, Unlink,
         RemoveRuntimeFiles, RemoveFiles
<1>3. CASE QmpReady \/ QmpFailed \/ QmpClosed \/ QmpMessage
  BY <1>3 DEF QmpReady, QmpFailed, QmpClosed, QmpMessage, FirstRequests, Shown, Unlink,
         RemoveRuntimeFiles, RemoveFiles
<1>4. CASE PauseOrResume \/ KillTimeout \/ ForceOffHelpers \/ ForceOff
  BY <1>4, EndHelpersType, SignalType DEF PauseOrResume, KillTimeout, ForceOffHelpers,
         ForceOff, Ask, Escalate, KillsLater, EndRun, Cleanup, Unlink, RemoveRuntimeFiles,
         RemoveFiles
<1>5. CASE ManagerQuits \/ ManagerCrashes \/ ManagerStarts
  BY <1>5, PidsAreRuns, EndHelpersType DEF ManagerQuits, ManagerCrashes, ManagerStarts,
         Leaves, ResetRunner, AttachTo, ConnectTo, Unlink, RemoveRuntimeFiles, RemoveFiles
<1>6. CASE QemuHandles
  BY <1>6 DEF QemuHandles, Heard, QemuTurns, Stage, External
<1>7. ASSUME NEW r \in Runs, Qemu(r) PROVE FlagTypes'
  BY <1>7 DEF Qemu, QemuWritesPid, QemuListens, QemuGuestChanges, QemuTurns, QemuShutsDown,
         QemuCloses, QemuExits, QemuDies, PidReused, Heard, Stage, External
<1>8. CASE (\E s \in Shares : VirtiofsdListens(s))
         \/ (\E r \in Runs, s \in Shares : VirtiofsdEnds(r, s))
  BY <1>8 DEF VirtiofsdListens, VirtiofsdEnds, External
<1>9. CASE UNCHANGED vars
  BY <1>9 DEF vars
<1> QED
  BY <1>1, <1>2, <1>3, <1>4, <1>5, <1>6, <1>7, <1>8, <1>9 DEF Next, Tick, QmpSignal, User

LEMMA StepRunnerTypes ==
    ASSUME TypeOK, [Next]_vars
    PROVE  RunnerTypes'
<1> USE DEF TypeOK, RunnerTypes, FlagTypes, ProcessTypes, States, Phases, None, managerVars,
         runnerVars, timerVars, linkVars, fileVars, processVars, historyVars
<1>1. CASE StartLeftRunning
  BY <1>1, PidsAreRuns DEF StartLeftRunning, AttachTo
<1>2. CASE StartQemu
  <2>1. launched' \in Runs
    BY <1>2, ConstantsAssumption DEF StartQemu, Runs
  <2> QED
    BY <1>2, <2>1 DEF StartQemu, BeginRun, LaunchQemu
<1>3. CASE StartRefused \/ StartHelpers
  BY <1>3 DEF StartRefused, StartHelpers, BeginRun, Cleanup
<1>4. CASE
         TickHelperFailed \/ TickQemuEnded \/ TickExited \/ TickHelpersListen \/ TickQemuRuns
  BY <1>4, PidsAreRuns, EndHelpersType DEF TickHelperFailed, TickQemuEnded, TickExited,
         TickHelpersListen, TickQemuRuns, LaunchQemu, ConnectTo, EndRun, Cleanup, Unlink,
         RemoveRuntimeFiles, RemoveFiles
<1>5. CASE QmpReady \/ QmpFailed \/ QmpClosed \/ QmpMessage
  BY <1>5 DEF QmpReady, QmpFailed, QmpClosed, QmpMessage, FirstRequests, Shown, Unlink,
         RemoveRuntimeFiles, RemoveFiles
<1>6. CASE KillTimeout
  <2>1. killStep \in 0 .. 1
    BY <1>6 DEF KillTimeout
  <2>2. /\ killStep' \in {killStep, killStep + 1}
        /\ killTimer' => killStep' < 2
    <3>1. CASE killTimer' = FALSE /\ UNCHANGED killStep
      BY <3>1
    <3>2. CASE Alive(pid) /\ Escalate(killStep)
      <4>1. killStep' = killStep + 1 /\ killTimer' = (killStep = 0)
        BY <3>2 DEF Escalate, KillsLater
      <4>2. killTimer' => killStep = 0
        BY <4>1
      <4> QED
        BY <2>1, <4>1, <4>2
    <3> QED
      BY <1>6, <3>1, <3>2 DEF KillTimeout
  <2>3. killStep' \in 0 .. 2
    BY <2>1, <2>2
  <2>4. UNCHANGED <<state, phase, pid, helpers, args>>
    BY <1>6 DEF KillTimeout
  <2> QED
    BY <2>2, <2>3, <2>4
<1>7. CASE ForceOff
  <2>1. killStep' \in 0 .. 1
    BY <1>7 DEF ForceOff, Escalate
  <2> QED
    BY <1>7, <2>1 DEF ForceOff
<1>8. CASE PauseOrResume \/ ForceOffHelpers
  BY <1>8 DEF PauseOrResume, ForceOffHelpers, EndRun, Cleanup
<1>9. CASE ManagerQuits \/ ManagerCrashes \/ ManagerStarts
  BY <1>9, PidsAreRuns, EndHelpersType DEF ManagerQuits, ManagerCrashes, ManagerStarts,
         Leaves, ResetRunner, AttachTo, ConnectTo, Unlink, RemoveRuntimeFiles, RemoveFiles
<1>10. CASE QemuHandles
  BY <1>10 DEF QemuHandles, Heard, QemuTurns, Stage, External
<1>11. ASSUME NEW r \in Runs, Qemu(r) PROVE RunnerTypes'
  BY <1>11 DEF Qemu, QemuWritesPid, QemuListens, QemuGuestChanges, QemuTurns, QemuShutsDown,
         QemuCloses, QemuExits, QemuDies, PidReused, Heard, Stage, External
<1>12. CASE (\E s \in Shares : VirtiofsdListens(s))
         \/ (\E r \in Runs, s \in Shares : VirtiofsdEnds(r, s))
  BY <1>12 DEF VirtiofsdListens, VirtiofsdEnds, External
<1>13. CASE UNCHANGED vars
  BY <1>13 DEF vars
<1> QED
  BY <1>1, <1>2, <1>3, <1>4, <1>5, <1>6, <1>7, <1>8, <1>9, <1>10, <1>11, <1>12, <1>13
     DEF Next, Tick, QmpSignal, User

LEMMA UnlinkType == Unlink => LinkTypes'
<1>1. <<>> \in Seq(Requests) /\ <<>> \in Seq(Messages)
  OBVIOUS
<1> QED
  BY <1>1 DEF Unlink, LinkTypes, None

LEMMA ConnectType ==
    ASSUME TypeOK, ConnectTo(qmpSock)
    PROVE  LinkTypes'
<1>1. <<>> \in Seq(Requests) /\ <<>> \in Seq(Messages)
  OBVIOUS
<1> QED
  BY <1>1 DEF TypeOK, FileTypes, ConnectTo, LinkTypes

LEMMA SameLinkType ==
    ASSUME TypeOK, UNCHANGED linkVars
    PROVE  LinkTypes'
  BY DEF TypeOK, LinkTypes, linkVars

LEMMA AskType ==
    ASSUME TypeOK, NEW request \in Requests, Ask(request)
    PROVE  wire' \in Seq(Requests)
<1>1. wire \in Seq(Requests)
  BY DEF TypeOK, LinkTypes
<1> QED
  BY <1>1 DEF Ask

LEMMA HeardType ==
    ASSUME TypeOK, NEW r, NEW m \in Messages, Heard(r, m)
    PROVE  mail' \in Seq(Messages)
<1>1. mail \in Seq(Messages)
  BY DEF TypeOK, LinkTypes
<1> QED
  BY <1>1 DEF Heard

LEMMA TurnsType ==
    ASSUME TypeOK, NEW r, NEW g, QemuTurns(r, g)
    PROVE  mail' \in Seq(Messages)
<1>1. mail \in Seq(Messages)
  BY DEF TypeOK, LinkTypes
<1>2. CASE Heard(r, IF g = "paused" THEN "STOP" ELSE "RESUME")
  BY <1>2, HeardType DEF Messages
<1> QED
  BY <1>1, <1>2 DEF QemuTurns

LEMMA StepLinkTypes ==
    ASSUME TypeOK, [Next]_vars
    PROVE  LinkTypes'
<1>1. CASE StartLeftRunning \/ ManagerStarts
  BY <1>1, ConnectType, SameLinkType DEF StartLeftRunning, ManagerStarts, AttachTo, linkVars
<1>2. CASE StartRefused \/ QmpFailed \/ QmpClosed
  BY <1>2, UnlinkType DEF StartRefused, QmpFailed, QmpClosed, Cleanup
<1>3. CASE TickHelperFailed \/ TickQemuEnded \/ TickExited \/ ForceOffHelpers
  BY <1>3, UnlinkType DEF TickHelperFailed, TickQemuEnded, TickExited, ForceOffHelpers,
                          EndRun, Cleanup
<1>4. CASE ManagerQuits \/ ManagerCrashes
  BY <1>4, UnlinkType DEF ManagerQuits, ManagerCrashes, Leaves, ResetRunner
<1>5. CASE StartQemu \/ StartHelpers \/ KillTimeout
  BY <1>5, SameLinkType DEF StartQemu, StartHelpers, KillTimeout
<1>6. CASE TickHelpersListen
  BY <1>6, UnlinkType, SameLinkType DEF TickHelpersListen, EndRun, Cleanup, linkVars
<1>7. CASE TickQemuRuns
  BY <1>7, ConnectType, SameLinkType DEF TickQemuRuns, linkVars
<1>8. CASE QmpReady
  <2>1. <<"query-status">> \in Seq(Requests)
    BY DEF Requests
  <2> QED
    BY <1>8, <2>1 DEF TypeOK, LinkTypes, QmpReady, FirstRequests
<1>9. CASE QmpMessage
  <2>1. mail \in Seq(Messages) /\ mail # <<>>
    BY <1>9 DEF TypeOK, LinkTypes, QmpMessage
  <2>2. mail' \in Seq(Messages)
    BY <1>9, <2>1 DEF QmpMessage
  <2> QED
    BY <1>9, <2>2 DEF TypeOK, LinkTypes, QmpMessage
<1>10. CASE PauseOrResume
  <2>1. wire' \in Seq(Requests)
    BY <1>10, AskType DEF PauseOrResume, Requests
  <2> QED
    BY <1>10, <2>1 DEF TypeOK, LinkTypes, PauseOrResume
<1>11. CASE ForceOff
  <2>1. wire' \in Seq(Requests)
    BY <1>11, AskType DEF TypeOK, LinkTypes, ForceOff, Requests
  <2> QED
    BY <1>11, <2>1 DEF TypeOK, LinkTypes, ForceOff
<1>12. CASE QemuHandles
  <2>1. wire \in Seq(Requests) /\ wire # <<>>
    BY <1>12 DEF TypeOK, LinkTypes, QemuHandles
  <2>2. wire' \in Seq(Requests)
    BY <1>12, <2>1 DEF QemuHandles
  <2>3. PICK g : \/ Heard(peer, guest[peer])
                 \/ QemuTurns(peer, g)
                 \/ Heard(peer, "SHUTDOWN")
    BY <1>12 DEF QemuHandles
  <2>4. guest[peer] \in Messages
    BY <1>12 DEF QemuHandles, TypeOK, ProcessTypes, Messages
  <2>5. mail' \in Seq(Messages)
    BY <2>3, <2>4, HeardType, TurnsType DEF Messages
  <2> QED
    BY <1>12, <2>2, <2>5 DEF TypeOK, LinkTypes, QemuHandles
<1>13. ASSUME NEW r \in Runs, QemuGuestChanges(r) \/ QemuShutsDown(r)
       PROVE  LinkTypes'
  <2>1. mail' \in Seq(Messages)
    BY <1>13, HeardType, TurnsType DEF QemuGuestChanges, QemuShutsDown, Messages
  <2> QED
    BY <1>13, <2>1 DEF TypeOK, LinkTypes, QemuGuestChanges, QemuShutsDown
<1>14. ASSUME NEW r \in Runs,
              \/ QemuWritesPid(r) \/ QemuListens(r) \/ QemuCloses(r) \/ QemuExits(r)
              \/ QemuDies(r) \/ PidReused(r)
       PROVE  LinkTypes'
  BY <1>14, SameLinkType DEF QemuWritesPid, QemuListens, QemuCloses, QemuExits, QemuDies,
                             PidReused
<1>15. CASE (\E s \in Shares : VirtiofsdListens(s))
         \/ (\E r \in Runs, s \in Shares : VirtiofsdEnds(r, s))
  BY <1>15, SameLinkType DEF VirtiofsdListens, VirtiofsdEnds
<1>16. CASE UNCHANGED vars
  BY <1>16, SameLinkType DEF vars
<1> QED
  BY <1>1, <1>2, <1>3, <1>4, <1>5, <1>6, <1>7, <1>8, <1>9, <1>10, <1>11, <1>12, <1>13,
     <1>14, <1>15, <1>16 DEF Next, Tick, QmpSignal, User, Qemu

LEMMA StepProcessTypes ==
    ASSUME TypeOK, [Next]_vars
    PROVE  ProcessTypes'
<1> USE DEF TypeOK, ProcessTypes, QemuStages, HelperStages, managerVars, runnerVars,
         timerVars, linkVars, fileVars, processVars, historyVars
<1>1. CASE StartLeftRunning
  BY <1>1 DEF StartLeftRunning
<1>2. CASE StartRefused
  BY <1>2, EndHelpersType DEF StartRefused, BeginRun
<1>3. CASE StartQemu \/ StartHelpers
  <2>1. launched' \in Runs
    BY <1>3, ConstantsAssumption DEF StartQemu, StartHelpers, Runs
  <2>2. CASE StartQemu
    BY <2>1, <2>2 DEF StartQemu, BeginRun, LaunchQemu
  <2>3. CASE StartHelpers
    <3>1. virtiofsd' \in [Runs -> [Shares -> HelperStages]]
      BY <2>1, <2>3 DEF StartHelpers
    <3> QED
      BY <2>1, <2>3, <3>1 DEF StartHelpers, BeginRun
  <2> QED
    BY <1>3, <2>2, <2>3
<1>4. CASE
         TickHelperFailed \/ TickQemuEnded \/ TickExited \/ TickHelpersListen \/ TickQemuRuns
  BY <1>4, PidsAreRuns, EndHelpersType DEF TickHelperFailed, TickQemuEnded, TickExited,
         TickHelpersListen, TickQemuRuns, LaunchQemu, ConnectTo, EndRun, Cleanup, Unlink,
         RemoveRuntimeFiles, RemoveFiles
<1>5. CASE QmpReady \/ QmpFailed \/ QmpClosed \/ QmpMessage
  BY <1>5 DEF QmpReady, QmpFailed, QmpClosed, QmpMessage, FirstRequests, Shown, Unlink,
         RemoveRuntimeFiles, RemoveFiles
<1>6. CASE PauseOrResume \/ KillTimeout \/ ForceOffHelpers \/ ForceOff
  BY <1>6, EndHelpersType, SignalType DEF PauseOrResume, KillTimeout, ForceOffHelpers,
         ForceOff, Ask, Escalate, KillsLater, EndRun, Cleanup, Unlink, RemoveRuntimeFiles,
         RemoveFiles
<1>7. CASE ManagerQuits \/ ManagerCrashes \/ ManagerStarts
  BY <1>7, PidsAreRuns, EndHelpersType DEF ManagerQuits, ManagerCrashes, ManagerStarts,
         Leaves, ResetRunner, AttachTo, ConnectTo, Unlink, RemoveRuntimeFiles, RemoveFiles
<1>8. CASE QemuHandles
  BY <1>8 DEF QemuHandles, Heard, QemuTurns, Stage, External
<1>9. ASSUME NEW r \in Runs, Qemu(r)
      PROVE  ProcessTypes'
  <2>1. CASE QemuWritesPid(r)
    BY <2>1 DEF QemuWritesPid, Stage, External
  <2>2. CASE QemuListens(r)
    BY <2>2 DEF QemuListens, Stage, External
  <2>3. CASE QemuGuestChanges(r)
    BY <2>3 DEF QemuGuestChanges, QemuTurns, External
  <2>4. CASE QemuShutsDown(r) \/ QemuCloses(r) \/ QemuExits(r) \/ QemuDies(r)
    BY <2>4 DEF QemuShutsDown, QemuCloses, QemuExits, QemuDies, Stage, External
  <2>5. CASE PidReused(r)
    BY <2>5 DEF PidReused
  <2> QED
    BY <1>9, <2>1, <2>2, <2>3, <2>4, <2>5 DEF Qemu
<1>10. CASE \E s \in Shares : VirtiofsdListens(s)
  BY <1>10 DEF VirtiofsdListens, External
<1>11. CASE \E r \in Runs, s \in Shares : VirtiofsdEnds(r, s)
  BY <1>11 DEF VirtiofsdEnds, External
<1>12. CASE UNCHANGED vars
  BY <1>12 DEF vars
<1> QED
  BY <1>1, <1>2, <1>3, <1>4, <1>5, <1>6, <1>7, <1>8, <1>9, <1>10, <1>11, <1>12
     DEF Next, Tick, QmpSignal, User

LEMMA StepFileTypes ==
    ASSUME TypeOK, [Next]_vars
    PROVE  FileTypes'
<1> USE DEF TypeOK, FileTypes, None, managerVars, runnerVars, timerVars, linkVars, fileVars,
         processVars, historyVars
<1>1. CASE StartLeftRunning \/ StartRefused \/ StartQemu \/ StartHelpers
  BY <1>1, PidsAreRuns, EndHelpersType, ConstantsAssumption DEF StartLeftRunning,
         StartRefused, StartQemu, StartHelpers, BeginRun, AttachTo, ConnectTo, LaunchQemu,
         Cleanup, Unlink, RemoveRuntimeFiles, RemoveFiles
<1>2. CASE
         TickHelperFailed \/ TickQemuEnded \/ TickExited \/ TickHelpersListen \/ TickQemuRuns
  BY <1>2, PidsAreRuns, EndHelpersType DEF TickHelperFailed, TickQemuEnded, TickExited,
         TickHelpersListen, TickQemuRuns, LaunchQemu, ConnectTo, EndRun, Cleanup, Unlink,
         RemoveRuntimeFiles, RemoveFiles
<1>3. CASE QmpReady \/ QmpFailed \/ QmpClosed \/ QmpMessage
  BY <1>3 DEF QmpReady, QmpFailed, QmpClosed, QmpMessage, FirstRequests, Shown, Unlink,
         RemoveRuntimeFiles, RemoveFiles
<1>4. CASE PauseOrResume \/ KillTimeout \/ ForceOffHelpers \/ ForceOff
  BY <1>4, EndHelpersType, SignalType DEF PauseOrResume, KillTimeout, ForceOffHelpers,
         ForceOff, Ask, Escalate, KillsLater, EndRun, Cleanup, Unlink, RemoveRuntimeFiles,
         RemoveFiles
<1>5. CASE ManagerQuits \/ ManagerCrashes \/ ManagerStarts
  BY <1>5, PidsAreRuns, EndHelpersType DEF ManagerQuits, ManagerCrashes, ManagerStarts,
         Leaves, ResetRunner, AttachTo, ConnectTo, Unlink, RemoveRuntimeFiles, RemoveFiles
<1>6. CASE QemuHandles
  BY <1>6 DEF QemuHandles, Heard, QemuTurns, Stage, External
<1>7. ASSUME NEW r \in Runs, Qemu(r) PROVE FileTypes'
  BY <1>7 DEF Qemu, QemuWritesPid, QemuListens, QemuGuestChanges, QemuTurns, QemuShutsDown,
         QemuCloses, QemuExits, QemuDies, PidReused, Heard, Stage, External
<1>8. CASE (\E s \in Shares : VirtiofsdListens(s))
         \/ (\E r \in Runs, s \in Shares : VirtiofsdEnds(r, s))
  BY <1>8 DEF VirtiofsdListens, VirtiofsdEnds, External
<1>9. CASE UNCHANGED vars
  BY <1>9 DEF vars
<1> QED
  BY <1>1, <1>2, <1>3, <1>4, <1>5, <1>6, <1>7, <1>8, <1>9 DEF Next, Tick, QmpSignal, User

(***************************************************************************)
(* Every variable keeps its type, and forceOff()'s timer runs only while a *)
(* signal is left to send: SIGTERM, then SIGKILL (escalate()).             *)
(***************************************************************************)
THEOREM TypeCorrect == SafeSpec => []TypeOK
<1>1. TypeOK /\ [Next]_vars => TypeOK'
  BY StepFlagTypes, StepRunnerTypes, StepLinkTypes, StepProcessTypes, StepFileTypes DEF TypeOK
<1> QED
  BY <1>1, InitType, PTL DEF SafeSpec
-----------------------------------------------------------------------------
(* ShowsTheGuest.  While QEMU serves, what it has written ends with the    *)
(* state of its guest, or the answer to query-status is still to come; and *)
(* a VM is only Stopping then because a quit is on its way.                *)

StateOf(m) == IF m \in {"running", "RESUME"} THEN "Running" ELSE "Paused"

Connected == link = "ready" /\ qemu[peer] = "serving"

Pending(request) == \E i \in 1 .. Len(wire) : wire[i] = request

LastWord ==
    \/ Pending("query-status")
    \/ mail # <<>> /\ StateOf(mail[Len(mail)]) = StateOf(guest[peer])
    \/ mail = <<>> /\ state \in {"Stopping", StateOf(guest[peer])}

InStep ==
    /\ link = "ready" =>
          /\ peer \in Runs
          /\ qemu[peer] \in {"serving", "leaving", "closed", "gone", "killed"}
    /\ link # "ready" => mail = <<>>
    /\ Connected =>
          /\ \A i \in 1 .. Len(mail) : mail[i] # "SHUTDOWN"
          /\ state = "Stopping" => Pending("quit")
          /\ LastWord

LEMMA InitInStep == Init => InStep
  BY DEF Init, InStep, Connected

(* Without a ready connection there is nothing to keep in step.            *)
LEMMA NotReadyInStep ==
    ASSUME link' # "ready", mail' = <<>>
    PROVE  InStep'
  BY DEF InStep, Connected

(* QEMU or virtiofsd goes on, and says nothing on this connection.         *)
LEMMA QuietInStep ==
    ASSUME InStep, UNCHANGED <<linkVars, state>>,
           link = "ready" =>
              /\ qemu'[peer] \in {"serving", "leaving", "closed", "gone", "killed"}
              /\ qemu'[peer] = "serving" => qemu[peer] = "serving" /\ guest'[peer] = guest[peer]
    PROVE  InStep'
<1>1. CASE link # "ready"
  BY <1>1, NotReadyInStep DEF InStep, linkVars
<1>2. CASE link = "ready" /\ qemu'[peer] # "serving"
  BY <1>2 DEF InStep, linkVars, Connected
<1>3. CASE link = "ready" /\ qemu'[peer] = "serving"
  <2>1. Connected
    BY <1>3 DEF Connected
  <2>2. UNCHANGED <<link, peer, wire, mail, state>> /\ guest'[peer] = guest[peer]
    BY <1>3 DEF linkVars
  <2>3. LastWord'
    BY <2>1, <2>2 DEF InStep, LastWord, Pending
  <2> QED
    BY <1>3, <2>1, <2>2, <2>3 DEF InStep, Pending
<1> QED
  BY <1>1, <1>2, <1>3

LEMMA AskPends ==
    ASSUME TypeOK, NEW request \in Requests, Ask(request)
    PROVE  Pending(request)' /\ \A q : Pending(q) => Pending(q)'
<1>1. wire \in Seq(Requests) /\ wire' = Append(wire, request)
  BY DEF TypeOK, LinkTypes, Ask
<1>2. Len(wire') = Len(wire) + 1 /\ Len(wire) \in Nat /\ wire'[Len(wire) + 1] = request
  BY <1>1
<1>3. \A i \in 1 .. Len(wire) : wire'[i] = wire[i]
  BY <1>1
<1>4. Len(wire) + 1 \in 1 .. Len(wire') /\ \A i \in 1 .. Len(wire) : i \in 1 .. Len(wire')
  BY <1>2
<1> QED
  BY <1>2, <1>3, <1>4 DEF Pending

LEMMA TailPends ==
    ASSUME TypeOK, wire # <<>>, wire' = Tail(wire), NEW q, Pending(q), Head(wire) # q
    PROVE  Pending(q)'
<1>1. wire \in Seq(Requests)
  BY DEF TypeOK, LinkTypes
<1>2. PICK i \in 1 .. Len(wire) : wire[i] = q
  BY DEF Pending
<1>3. Len(wire) \in Nat \ {0} /\ Head(wire) = wire[1] /\ Len(Tail(wire)) = Len(wire) - 1
  BY <1>1
<1>4. i # 1 /\ i - 1 \in 1 .. Len(wire) - 1 /\ (i - 1) + 1 = i
  BY <1>2, <1>3
<1>5. \A j \in 1 .. Len(wire) - 1 : Tail(wire)[j] = wire[j + 1]
  BY <1>1
<1>6. Tail(wire)[i - 1] = q
  BY <1>2, <1>4, <1>5
<1> QED
  BY <1>3, <1>4, <1>6 DEF Pending

(* QEMU has just told the state that its guest now has.                    *)
LEMMA ToldLast ==
    ASSUME TypeOK, InStep, Connected, NEW m \in Messages \ {"SHUTDOWN"},
           mail' = Append(mail, m), peer' = peer, StateOf(m) = StateOf(guest'[peer])
    PROVE  LastWord' /\ \A i \in 1 .. Len(mail') : mail'[i] # "SHUTDOWN"
<1>1. mail \in Seq(Messages)
  BY DEF TypeOK, LinkTypes
<1>2. mail' # <<>> /\ Len(mail') = Len(mail) + 1 /\ mail'[Len(mail')] = m
  BY <1>1
<1>3. \A i \in 1 .. Len(mail) : mail'[i] = mail[i]
  BY <1>1
<1>4. Len(mail) \in Nat
  BY <1>1
<1>5. \A i \in 1 .. Len(mail') : i \in 1 .. Len(mail) \/ i = Len(mail')
  BY <1>2, <1>4
<1>6. \A i \in 1 .. Len(mail') : mail'[i] # "SHUTDOWN"
  BY <1>2, <1>3, <1>5 DEF InStep
<1> QED
  BY <1>2, <1>6 DEF LastWord

LEMMA MessageInStep ==
    ASSUME TypeOK, InStep, QmpMessage
    PROVE  InStep'
<1>1. /\ mail \in Seq(Messages) /\ mail # <<>> /\ mail' = Tail(mail) /\ link = "ready"
      /\ UNCHANGED <<link, peer, wire, qemu, guest>>
  BY DEF TypeOK, LinkTypes, QmpMessage, processVars
<1>2. CASE ~Connected
  BY <1>1, <1>2 DEF InStep, Connected
<1>3. CASE Connected
  <2>1. Len(mail) \in Nat \ {0} /\ Head(mail) = mail[1] /\ Len(mail') = Len(mail) - 1
    BY <1>1
  <2>2. \A i \in 1 .. Len(mail) - 1 : mail'[i] = mail[i + 1] /\ i + 1 \in 1 .. Len(mail)
    BY <1>1
  <2>3. Head(mail) # "SHUTDOWN" /\ \A i \in 1 .. Len(mail') : mail'[i] # "SHUTDOWN"
    BY <1>3, <2>1, <2>2 DEF InStep
  <2>4. state' = Shown(StateOf(Head(mail)))
    BY <2>3 DEF QmpMessage, StateOf
  <2>5. state' = "Stopping" => Pending("quit")'
    BY <1>1, <1>3, <2>4 DEF InStep, Shown, StateOf, Pending
  <2>6. LastWord'
    <3>1. CASE Pending("query-status")
      BY <1>1, <3>1 DEF LastWord, Pending
    <3>2. CASE ~Pending("query-status")
      <4>1. StateOf(mail[Len(mail)]) = StateOf(guest[peer])
        BY <1>1, <1>3, <3>2 DEF InStep, LastWord
      <4>2. CASE Len(mail) = 1
        <5>1. mail' = <<>>
          BY <1>1, <2>1, <4>2
        <5>2. state' \in {"Stopping", StateOf(guest[peer])}
          BY <2>1, <2>4, <4>1, <4>2 DEF Shown
        <5> QED
          BY <1>1, <5>1, <5>2 DEF LastWord
      <4>3. CASE Len(mail) # 1
        <5>1. Len(mail) - 1 \in 1 .. Len(mail) - 1 /\ (Len(mail) - 1) + 1 = Len(mail)
          BY <2>1, <4>3
        <5>2. mail' # <<>> /\ mail'[Len(mail')] = mail[Len(mail)]
          BY <2>1, <2>2, <5>1
        <5> QED
          BY <1>1, <4>1, <5>2 DEF LastWord
      <4> QED
        BY <4>2, <4>3
    <3> QED
      BY <3>1, <3>2
  <2> QED
    BY <1>1, <1>3, <2>3, <2>5, <2>6 DEF InStep, Connected
<1> QED
  BY <1>2, <1>3

LEMMA HandlesInStep ==
    ASSUME TypeOK, InStep, QemuHandles
    PROVE  InStep'
<1>1. /\ link = "ready" /\ Connected /\ peer \in Runs /\ wire # <<>> /\ wire' = Tail(wire)
      /\ UNCHANGED <<link, peer, state>>
  BY DEF QemuHandles, Connected, External, managerVars, runnerVars
<1>2. qemu \in [Runs -> QemuStages] /\ guest \in [Runs -> {"running", "paused"}]
  BY DEF TypeOK, ProcessTypes
<1>3. CASE Head(wire) = "quit"
  <2>1. qemu'[peer] = "leaving"
    BY <1>1, <1>2, <1>3 DEF QemuHandles, Stage
  <2> QED
    BY <1>1, <2>1 DEF InStep, Connected
<1>4. CASE Head(wire) # "quit"
  <2>1. qemu' = qemu
    BY <1>4 DEF QemuHandles, QemuTurns
  <2>2. state' = "Stopping" => Pending("quit")'
    BY <1>1, <1>4, TailPends DEF InStep
  <2>3. LastWord' /\ \A i \in 1 .. Len(mail') : mail'[i] # "SHUTDOWN"
    <3>1. CASE Head(wire) = "query-status"
      <4>1. mail' = Append(mail, guest[peer]) /\ guest' = guest
        BY <1>1, <3>1 DEF QemuHandles, Heard
      <4>2. guest[peer] \in Messages \ {"SHUTDOWN"}
        BY <1>1, <1>2 DEF Messages
      <4> QED
        BY <1>1, <4>1, <4>2, ToldLast
    <3>2. ASSUME NEW g \in {"running", "paused"}, QemuTurns(peer, g),
                 Head(wire) # "query-status"
          PROVE  LastWord' /\ \A i \in 1 .. Len(mail') : mail'[i] # "SHUTDOWN"
      <4>1. guest'[peer] = g
        BY <1>1, <1>2, <3>2 DEF QemuTurns
      <4>2. CASE guest[peer] = g /\ mail' = mail
        <5>1. Pending("query-status") => Pending("query-status")'
          BY <1>1, <3>2, TailPends
        <5> QED
          BY <1>1, <4>1, <4>2, <5>1 DEF InStep, LastWord
      <4>3. CASE guest[peer] # g
        <5>1. mail' = Append(mail, IF g = "paused" THEN "STOP" ELSE "RESUME")
          BY <1>1, <3>2, <4>3 DEF QemuTurns, Heard
        <5>2. (IF g = "paused" THEN "STOP" ELSE "RESUME") \in Messages \ {"SHUTDOWN"}
          BY DEF Messages
        <5>3. StateOf(IF g = "paused" THEN "STOP" ELSE "RESUME") = StateOf(guest'[peer])
          BY <3>2, <4>1 DEF StateOf
        <5> QED
          BY <1>1, <5>1, <5>2, <5>3, ToldLast
      <4> QED
        BY <3>2, <4>2, <4>3 DEF QemuTurns
    <3> QED
      BY <1>4, <3>1, <3>2 DEF QemuHandles
  <2> QED
    BY <1>1, <2>1, <2>2, <2>3 DEF InStep, Connected
<1> QED
  BY <1>3, <1>4

LEMMA GuestInStep ==
    ASSUME TypeOK, InStep, NEW r \in Runs, QemuGuestChanges(r)
    PROVE  InStep'
<1>1. /\ UNCHANGED <<link, peer, wire, state, qemu>>
      /\ guest \in [Runs -> {"running", "paused"}]
  BY DEF QemuGuestChanges, QemuTurns, External, managerVars, runnerVars, TypeOK, ProcessTypes
<1>2. PICK g \in {"running", "paused"} : guest[r] # g /\ QemuTurns(r, g)
  BY DEF QemuGuestChanges
<1> DEFINE m == IF g = "paused" THEN "STOP" ELSE "RESUME"
<1>3. Heard(r, m) /\ guest' = [guest EXCEPT ![r] = g]
  BY <1>2 DEF QemuTurns
<1>4. CASE link = "ready" /\ peer = r
  <2>1. mail' = Append(mail, m) /\ guest'[peer] = g /\ Connected
    BY <1>1, <1>3, <1>4 DEF Heard, QemuGuestChanges, Connected
  <2>2. m \in Messages \ {"SHUTDOWN"} /\ StateOf(m) = StateOf(guest'[peer])
    BY <1>2, <2>1 DEF Messages, StateOf
  <2>3. LastWord' /\ \A i \in 1 .. Len(mail') : mail'[i] # "SHUTDOWN"
    BY <1>1, <2>1, <2>2, ToldLast
  <2> QED
    BY <1>1, <1>4, <2>1, <2>3 DEF InStep, Connected, Pending
<1>5. CASE ~(link = "ready" /\ peer = r)
  <2>1. mail' = mail
    BY <1>3, <1>5 DEF Heard
  <2>2. link = "ready" => guest'[peer] = guest[peer]
    BY <1>1, <1>3, <1>5 DEF InStep
  <2> QED
    BY <1>1, <2>1, <2>2, QuietInStep DEF InStep, linkVars
<1> QED
  BY <1>4, <1>5

(* QEMU goes from one stage to a later one.                                *)
LEMMA StageInStep ==
    ASSUME TypeOK, InStep, NEW r \in Runs,
           \/ QemuWritesPid(r) \/ QemuListens(r) \/ QemuShutsDown(r)
           \/ QemuCloses(r) \/ QemuExits(r) \/ QemuDies(r)
    PROVE  InStep'
<1>1. qemu \in [Runs -> QemuStages] /\ guest \in [Runs -> {"running", "paused"}]
  BY DEF TypeOK, ProcessTypes
<1>2. UNCHANGED <<link, peer, wire, state>>
  BY DEF QemuWritesPid, QemuListens, QemuShutsDown, QemuCloses, QemuExits, QemuDies, External,
         managerVars, runnerVars, linkVars
<1>3. \E t \in QemuStages : qemu' = [qemu EXCEPT ![r] = t]
  BY DEF QemuWritesPid, QemuListens, QemuShutsDown, QemuCloses, QemuExits, QemuDies, Stage,
         QemuStages
<1>4. CASE link = "ready" /\ peer = r
  <2>1. qemu'[peer] \in {"leaving", "closed", "gone"}
    BY <1>1, <1>4 DEF QemuWritesPid, QemuListens, QemuShutsDown, QemuCloses, QemuExits, QemuDies,
           Stage, InStep
  <2> QED
    BY <1>2, <1>4, <2>1 DEF InStep, Connected
<1>5. CASE ~(link = "ready" /\ peer = r)
  <2>1. mail' = mail
    BY <1>5 DEF QemuWritesPid, QemuListens, QemuShutsDown, QemuCloses, QemuExits, QemuDies,
                linkVars, Heard
  <2>2. link = "ready" => qemu'[peer] = qemu[peer]
    BY <1>1, <1>3, <1>5 DEF InStep
  <2>3. link = "ready" => guest'[peer] = guest[peer]
    BY <1>1, <1>5 DEF QemuWritesPid, QemuListens, QemuShutsDown, QemuCloses, QemuExits, QemuDies,
                      InStep
  <2> QED
    BY <1>2, <2>1, <2>2, <2>3, QuietInStep DEF InStep, linkVars
<1> QED
  BY <1>4, <1>5

LEMMA SignalInStep ==
    ASSUME TypeOK, InStep, UNCHANGED <<linkVars, state, guest>>, NEW signal,
           SignalQemu(pid, signal) \/ SignalNobody
    PROVE  InStep'
<1>1. link = "ready" => qemu'[peer] \in {qemu[peer], "killed"}
  BY DEF SignalQemu, SignalNobody, TypeOK, ProcessTypes, InStep
<1> QED
  BY <1>1, QuietInStep DEF InStep

LEMMA StepInStep ==
    ASSUME StartsClear = TRUE, TypeOK, PhaseFits, InStep, [Next]_vars
    PROVE  InStep'
<1> USE DEF IsActive
<1>1. CASE StartLeftRunning \/ StartRefused
  BY <1>1, NotReadyInStep DEF StartLeftRunning, AttachTo, ConnectTo, StartRefused, Cleanup,
                              Unlink
<1>2. CASE StartQemu \/ StartHelpers
  BY <1>2, NotReadyInStep DEF StartQemu, StartHelpers, BeginRun, linkVars, InStep
<1>3. CASE TickHelperFailed \/ TickQemuEnded \/ TickExited \/ ForceOffHelpers
  BY <1>3, NotReadyInStep DEF TickHelperFailed, TickQemuEnded, TickExited, ForceOffHelpers,
                              EndRun, Cleanup, Unlink
<1>4. CASE TickHelpersListen
  BY <1>4, NotReadyInStep DEF TickHelpersListen, Ticks, PhaseFits, InStep, EndRun, Cleanup,
                              Unlink, linkVars
<1>5. CASE TickQemuRuns
  BY <1>5, NotReadyInStep DEF TickQemuRuns, Ticks, PhaseFits, InStep, ConnectTo, linkVars
<1>6. CASE QmpFailed \/ QmpClosed
  BY <1>6, NotReadyInStep DEF QmpFailed, QmpClosed, Unlink
<1>7. CASE ManagerQuits \/ ManagerCrashes
  BY <1>7, NotReadyInStep DEF ManagerQuits, ManagerCrashes, Leaves, ResetRunner, Unlink
<1>8. CASE ManagerStarts
  BY <1>8, NotReadyInStep DEF ManagerStarts, PhaseFits, InStep, AttachTo, ConnectTo, linkVars
<1>9. CASE QmpReady
  <2>1. link = "waiting" /\ link' = "ready" /\ wire' = <<"query-status">> /\ Serving(peer)
        /\ UNCHANGED <<peer, mail, state, qemu>>
    BY <1>9 DEF QmpReady, FirstRequests, processVars
  <2>2. mail' = <<>> /\ state' # "Stopping"
    BY <2>1 DEF InStep, PhaseFits
  <2>3. Pending("query-status")'
    <3>1. Len(wire') = 1 /\ wire'[1] = "query-status"
      BY <2>1
    <3> QED
      BY <3>1 DEF Pending
  <2> QED
    BY <2>1, <2>2, <2>3 DEF InStep, Connected, LastWord, Serving
<1>10. CASE QmpMessage
  BY <1>10, MessageInStep
<1>11. CASE PauseOrResume
  <2>1. PICK request \in {"stop", "cont"} : Ask(request)
    BY <1>11 DEF PauseOrResume
  <2>2. \A q : Pending(q) => Pending(q)'
    BY <2>1, AskPends DEF Requests
  <2>3. UNCHANGED <<link, peer, mail, state, qemu, guest>>
    BY <1>11 DEF PauseOrResume, managerVars, runnerVars, processVars
  <2> QED
    BY <2>2, <2>3 DEF InStep, Connected, LastWord
<1>12. CASE KillTimeout
  BY <1>12, SignalInStep DEF KillTimeout, Escalate
<1>13. CASE ForceOff
  <2>1. CASE link = "ready"
    <3>1. /\ Ask("quit") /\ state' = "Stopping"
          /\ UNCHANGED <<link, peer, mail, qemu, guest>>
      BY <1>13, <2>1 DEF ForceOff, SignalNobody
    <3>2. Pending("quit")' /\ \A q : Pending(q) => Pending(q)'
      BY <3>1, AskPends DEF Requests
    <3> QED
      BY <2>1, <3>1, <3>2 DEF InStep, Connected, LastWord
  <2>2. CASE link # "ready"
    BY <1>13, <2>2, NotReadyInStep DEF ForceOff, InStep
  <2> QED
    BY <2>1, <2>2
<1>14. CASE QemuHandles
  BY <1>14, HandlesInStep
<1>15. ASSUME NEW r \in Runs, Qemu(r) PROVE InStep'
  <2>1. CASE PidReused(r)
    BY <2>1, QuietInStep DEF PidReused, managerVars, runnerVars, InStep
  <2> QED
    BY <1>15, <2>1, GuestInStep, StageInStep DEF Qemu
<1>16. CASE \/ UNCHANGED vars
            \/ \E s \in Shares : VirtiofsdListens(s)
            \/ \E r \in Runs, s \in Shares : VirtiofsdEnds(r, s)
  <2>1. UNCHANGED <<linkVars, state, qemu, guest>>
    BY <1>16 DEF VirtiofsdListens, VirtiofsdEnds, External, vars, managerVars, runnerVars,
                 processVars
  <2> QED
    BY <2>1, QuietInStep DEF InStep
<1> QED
  BY <1>1, <1>2, <1>3, <1>4, <1>5, <1>6, <1>7, <1>8, <1>9, <1>10, <1>11, <1>12, <1>13,
     <1>14, <1>15, <1>16 DEF Next, Tick, QmpSignal, User

(***************************************************************************)
(* However query-status, the events of QEMU and the commands of the user   *)
(* cross on the connection: once everything is read and answered, the      *)
(* manager shows what the guest is (qmpReady(), event()).                  *)
(***************************************************************************)
THEOREM Shows ==
    ASSUME StartsClear = TRUE
    PROVE  SafeSpec => []ShowsTheGuest
<1>1. TypeOK /\ PhaseFits /\ InStep /\ [Next]_vars => InStep'
  BY StepInStep
<1>2. TypeOK /\ InStep => ShowsTheGuest
  <2> SUFFICES ASSUME TypeOK, InStep, link = "ready", wire = <<>>, mail = <<>>,
                      qemu[peer] = "serving"
               PROVE  state = IF guest[peer] = "running" THEN "Running" ELSE "Paused"
    BY DEF ShowsTheGuest
  <2>1. \A q : ~Pending(q)
    BY DEF Pending
  <2>2. state = StateOf(guest[peer])
    BY <2>1 DEF InStep, Connected, LastWord
  <2> QED
    BY <2>2 DEF InStep, StateOf, TypeOK, ProcessTypes
<1> QED
  BY <1>1, <1>2, InitInStep, PhasesFit, TypeCorrect, PTL DEF SafeSpec

-----------------------------------------------------------------------------
(* One QEMU, and one that is known.  This holds where QEMU ends in time,   *)
(* the manager does not go while QEMU boots and is not killed, and the     *)
(* user does not start what is being connected to: see Patient.            *)

Patient == ExitsInTime /\ QuitsLate /\ StartsClear /\ ~Crashes

(* Only the last run may have a process, a file or a connection.           *)
LastOnly ==
    /\ \A r \in Runs : Live(r) => r = launched
    /\ \A r \in Runs : r > launched => \A s \in Shares : virtiofsd[r][s] = "none"
    /\ pidFile \in {None, launched}
    /\ qmpSock \in {None, launched}
    /\ peer \in {None, launched}
    /\ link = "none" => peer = None

(* What the manager knows of a QEMU that lives.                            *)
KnownQemu ==
    /\ Live(launched) /\ qemu[launched] # "booting" => pidFile = launched
    /\ Live(launched) /\ qemu[launched] = "booting" => manager /\ phase = "Qemu"
    /\ Live(launched) /\ manager =>
          /\ pid = launched
          /\ IsActive \/ phase = "Attach" \/ link = "ready" \/ reported
    /\ phase = "Helpers" => ~Live(launched) /\ launched \in Runs
    /\ phase \in {"Qemu", "Attach", "Exiting"} \/ link = "ready" =>
          pid = launched /\ launched \in Runs
    /\ link = "ready" =>
          /\ peer = launched
          /\ qemu[launched] \in {"serving", "leaving", "closed", "gone", "killed"}
    /\ phase = "Exiting" => qemu[launched] \in {"closed", "gone", "killed"}

(* SIGKILL is due only after SIGTERM.                                      *)
TermFirst ==
    /\ killTimer => IsActive /\ phase # "Helpers"
    /\ killTimer /\ killStep # 0 /\ Live(pid) => pid \in term
    /\ victims = {}
    /\ \A r \in Runs : qemu[r] = "killed" => r \in term

(* virtiofsd waits only for a QEMU that this manager waits for too.        *)
Waits(r, s) == virtiofsd[r][s] \in {"starting", "listening"}

HelpersWatched ==
    /\ \A r \in Runs, s \in Shares :
          Waits(r, s) =>
             /\ r = launched /\ s \in helpers
             /\ \/ phase = "Helpers"
                \/ phase = "Qemu" /\ qemu[r] \in {"booting", "gone", "killed"}
    /\ \A s \in Shares :
          (phase = "Helpers" /\ s \in fsSocks) \/ phase = "Qemu"
             => \A r \in Runs : virtiofsd[r][s] # "starting"

RInv == TypeOK /\ PhaseFits /\ LastOnly /\ KnownQemu /\ TermFirst /\ HelpersWatched
KnownRun == LastOnly /\ KnownQemu /\ TermFirst /\ HelpersWatched

LEMMA InitKnownRun == Init => KnownRun
<1> SUFFICES ASSUME Init PROVE KnownRun
  OBVIOUS
<1>1. \A r \in Runs : qemu[r] = "none" /\ \A s \in Shares : virtiofsd[r][s] = "none"
  BY DEF Init
<1>2. ~Live(launched) /\ \A r \in Runs : ~Live(r)
  BY <1>1 DEF Live
<1>3. LastOnly /\ KnownQemu
  BY <1>1, <1>2 DEF Init, LastOnly, KnownQemu, None
<1>4. TermFirst /\ HelpersWatched
  BY <1>1 DEF Init, TermFirst, HelpersWatched, Waits
<1> QED
  BY <1>3, <1>4 DEF KnownRun

(* A VM that may be started, and whose pid file names nobody, has neither  *)
(* a QEMU nor a virtiofsd that waits for one.                              *)
LEMMA NothingLeft ==
    ASSUME RInv, phase = "Idle", RunningPid = None
    PROVE  /\ \A r \in Runs : ~Live(r)
           /\ ~Live(launched)
           /\ \A r \in Runs, s \in Shares : ~Waits(r, s)
<1>1. ~Live(launched)
  <2>1. Live(launched) => pidFile = launched
    BY DEF RInv, KnownQemu
  <2>2. Live(launched) => launched # None
    BY DEF Live, Runs, None
  <2> QED
    BY <2>1, <2>2 DEF RunningPid, Alive, IsOurs
<1>2. \A r \in Runs : ~Live(r)
  BY <1>1 DEF RInv, LastOnly
<1>3. \A r \in Runs, s \in Shares : ~Waits(r, s)
  BY DEF RInv, HelpersWatched
<1> QED
  BY <1>1, <1>2, <1>3

(* cleanup() when no QEMU is left: nothing of the run is.                  *)
LEMMA OverKeeps ==
    ASSUME RInv, ~Live(launched), Cleanup, EndHelpers, state' = "Stopped",
           UNCHANGED <<manager, launched, qemu, term, victims>>
    PROVE  KnownRun'
<1>1. ~Live(launched)' /\ \A r \in Runs : ~Live(r)'
  BY DEF Live, RInv, LastOnly
<1>2. \A r \in Runs, s \in Shares :
        virtiofsd'[r][s] = IF r = launched /\ s \in helpers /\ HelperAlive(r, s)
                           THEN "gone" ELSE virtiofsd[r][s]
  BY DEF EndHelpers
<1>3. \A r \in Runs, s \in Shares : ~Waits(r, s)'
  BY <1>2 DEF RInv, HelpersWatched, Waits, HelperAlive
<1>4. LastOnly'
  <2>1. \A r \in Runs : r > launched => r # launched
    BY DEF Runs, RInv, TypeOK, ProcessTypes
  <2> QED
    BY <1>1, <1>2, <2>1 DEF RInv, LastOnly, Cleanup, Unlink, RemoveRuntimeFiles, RemoveFiles
<1>5. KnownQemu' /\ TermFirst'
  BY <1>1 DEF RInv, KnownQemu, TermFirst, Cleanup, Unlink
<1>6. HelpersWatched'
  BY <1>3 DEF HelpersWatched, Cleanup
<1> QED
  BY <1>4, <1>5, <1>6 DEF KnownRun

(* attach() to the QEMU that the pid file names                            *)
LEMMA AttachKeeps ==
    ASSUME RInv, phase = "Idle", ~killTimer, RunningPid # None, NEW newArgs,
           AttachTo(RunningPid, newArgs), UNCHANGED <<state, helpers, fileVars, processVars>>,
           killTimer' = killTimer, victims' = victims
    PROVE  KnownRun'
<1>1. Live(launched) /\ RunningPid = launched /\ launched \in Runs
  BY DEF RunningPid, Alive, IsOurs, Live, RInv, LastOnly
<1>2. UNCHANGED <<launched, qemu, virtiofsd, term, pidFile, qmpSock, fsSocks>>
  BY DEF processVars, fileVars
<1>3. LastOnly'
  BY <1>2 DEF RInv, LastOnly, Live, AttachTo, ConnectTo
<1>4. KnownQemu'
  BY <1>1, <1>2 DEF RInv, KnownQemu, Live, AttachTo, ConnectTo
<1>5. TermFirst'
  BY <1>2 DEF RInv, TermFirst
<1>6. HelpersWatched'
  BY <1>2 DEF RInv, HelpersWatched, Waits, AttachTo
<1> QED
  BY <1>3, <1>4, <1>5, <1>6 DEF KnownRun

LEMMA StartsKeep ==
    ASSUME Patient, RInv, StartQemu \/ StartHelpers
    PROVE  KnownRun'
<1>0. /\ phase = "Idle" /\ ~IsActive /\ manager /\ RunningPid = None /\ link = "none"
      /\ killTimer' = FALSE /\ manager' = manager /\ peer' = None /\ link' = "none"
  BY DEF StartQemu, StartHelpers, BeginRun, MayStart, Patient, RInv, TermFirst, PhaseFits,
         LastOnly, linkVars, TypeOK, LinkTypes, FlagTypes
<1>1. launched' \in Runs /\ launched' = launched + 1 /\ launched \in Nat
  BY ConstantsAssumption DEF StartQemu, StartHelpers, Runs, RInv, TypeOK, ProcessTypes
<1>2. /\ \A r \in Runs : ~Live(r)
      /\ \A r \in Runs, s \in Shares : ~Waits(r, s)
  BY <1>0, NothingLeft
<1>3. pidFile' = None /\ qmpSock' = None /\ fsSocks' = {} /\ victims' = victims /\ term' = term
  BY DEF StartQemu, StartHelpers, RemoveFiles
<1>4. \A r \in Runs : r > launched' => r > launched /\ r # launched'
  BY <1>1 DEF Runs
<1>5. CASE StartQemu
  <2>1. qemu' = [qemu EXCEPT ![launched'] = "booting"] /\ pid' = launched' /\ phase' = "Qemu"
        /\ virtiofsd' = virtiofsd
    BY <1>5 DEF StartQemu, LaunchQemu
  <2>2. \A r \in Runs : qemu'[r] = IF r = launched' THEN "booting" ELSE qemu[r]
    BY <1>1, <2>1 DEF RInv, TypeOK, ProcessTypes
  <2>3. LastOnly'
    BY <1>0, <1>2, <1>3, <1>4, <2>1, <2>2 DEF RInv, LastOnly, Live
  <2>4. KnownQemu'
    BY <1>0, <1>1, <2>1, <2>2, <1>5 DEF KnownQemu, Live, StartQemu, IsActive
  <2>5. TermFirst'
    BY <1>0, <1>3, <2>2 DEF RInv, TermFirst
  <2>6. HelpersWatched'
    BY <1>2, <2>1 DEF HelpersWatched, Waits
  <2> QED
    BY <2>3, <2>4, <2>5, <2>6 DEF KnownRun
<1>6. CASE StartHelpers
  <2>1. qemu' = qemu /\ phase' = "Helpers"
    BY <1>6 DEF StartHelpers
  <2>2. \A r \in Runs, s \in Shares :
          virtiofsd'[r][s] = IF r = launched'
                             THEN IF s \in helpers' THEN "starting" ELSE "none"
                             ELSE virtiofsd[r][s]
    BY <1>1, <1>6 DEF StartHelpers, RInv, TypeOK, ProcessTypes
  <2>3. LastOnly'
    BY <1>0, <1>2, <1>3, <1>4, <2>1, <2>2 DEF RInv, LastOnly, Live
  <2>4. KnownQemu'
    BY <1>0, <1>1, <1>2, <2>1 DEF KnownQemu, Live
  <2>5. TermFirst'
    BY <1>0, <1>3, <2>1 DEF RInv, TermFirst
  <2>6. HelpersWatched'
    BY <1>2, <1>3, <2>1, <2>2 DEF HelpersWatched, Waits
  <2> QED
    BY <2>3, <2>4, <2>5, <2>6 DEF KnownRun
<1> QED
  BY <1>5, <1>6

LEMMA LaunchKeeps ==
    ASSUME RInv, TickHelpersListen, LaunchQemu, UNCHANGED <<launched, state>>,
           UNCHANGED <<helpers, killTimer, linkVars, fileVars, virtiofsd>>
    PROVE  KnownRun'
<1>0. /\ manager /\ manager' = manager /\ phase = "Helpers" /\ launched \in Runs
      /\ link # "ready" /\ ~killTimer
      /\ UNCHANGED <<victims, term, pidFile, qmpSock, fsSocks, peer, link>>
  BY DEF TickHelpersListen, Ticks, RInv, KnownQemu, PhaseFits, TermFirst, linkVars, fileVars
<1>1. qemu' = [qemu EXCEPT ![launched] = "booting"] /\ pid' = launched /\ phase' = "Qemu"
  BY DEF LaunchQemu
<1>2. \A r \in Runs : qemu'[r] = IF r = launched THEN "booting" ELSE qemu[r]
  BY <1>0, <1>1 DEF RInv, TypeOK, ProcessTypes
<1>3. \A s \in helpers : s \in fsSocks
  BY DEF TickHelpersListen, EndRun, Cleanup
<1>4. LastOnly'
  BY <1>0, <1>2 DEF RInv, LastOnly, Live
<1>5. KnownQemu'
  BY <1>0, <1>1, <1>2 DEF RInv, KnownQemu, Live, PhaseFits, IsActive
<1>6. TermFirst'
  BY <1>0, <1>2 DEF RInv, TermFirst
<1>7. HelpersWatched'
  <2>1. \A r \in Runs, s \in Shares : virtiofsd[r][s] # "starting"
    BY <1>0, <1>3 DEF RInv, HelpersWatched, Waits
  <2> QED
    BY <1>0, <1>1, <1>2, <2>1 DEF RInv, HelpersWatched, Waits
<1> QED
  BY <1>4, <1>5, <1>6, <1>7 DEF KnownRun

LEMMA TicksKeep ==
    ASSUME Patient, RInv,
           TickHelperFailed \/ TickHelpersListen \/ TickQemuEnded \/ TickQemuRuns
           \/ TickExited \/ ForceOffHelpers
    PROVE  KnownRun'
<1>1. CASE EndRun(TRUE) \/ EndRun(FALSE) \/ EndRun(~stopRequested)
  <2>1. ~Live(launched)
    <3>1. CASE phase = "Helpers"
      BY <3>1 DEF RInv, KnownQemu
    <3>2. CASE phase = "Qemu" /\ TickQemuEnded
      BY <3>2 DEF TickQemuEnded, QemuPid, Alive, RInv, KnownQemu, LastOnly
    <3>3. CASE phase = "Exiting" /\ TickExited
      BY <3>3 DEF TickExited, Patient, Alive, Live, RInv, KnownQemu
    <3> QED
      BY <1>1, <3>1, <3>2, <3>3
         DEF TickHelperFailed, TickHelpersListen, TickQemuEnded, TickQemuRuns, TickExited,
             ForceOffHelpers, Ticks, EndRun, Cleanup
  <2>2. /\ Cleanup /\ EndHelpers /\ state' = "Stopped"
        /\ UNCHANGED <<manager, launched, qemu, term, victims>>
    BY <1>1 DEF TickHelperFailed, TickHelpersListen, TickQemuEnded, TickQemuRuns, TickExited,
                ForceOffHelpers, EndRun, Cleanup, LaunchQemu, processVars, historyVars, Ticks
  <2> QED
    BY <2>1, <2>2, OverKeeps
<1>2. CASE TickHelpersListen
  BY <1>1, <1>2, LaunchKeeps DEF TickHelpersListen
<1>3. CASE TickQemuRuns
  <2>1. /\ phase = "Qemu" /\ phase' = phase /\ QemuPid = launched /\ pid = launched
        /\ launched \in Runs
    BY <1>3 DEF TickQemuRuns, Ticks, QemuPid, RInv, KnownQemu, LastOnly
  <2>2. /\ pid' = pid
        /\ UNCHANGED <<manager, state, helpers, killStep, killTimer, qemu, launched, term,
                       virtiofsd, pidFile, qmpSock, fsSocks, reported, victims>>
        /\ \/ link' = "waiting" /\ peer' = qmpSock
           \/ UNCHANGED <<link, peer>>
    BY <1>3, <2>1 DEF TickQemuRuns, ConnectTo, linkVars, timerVars, fileVars, processVars,
                      historyVars
  <2>3. LastOnly'
    BY <2>2 DEF RInv, LastOnly, Live
  <2>4. KnownQemu'
    BY <2>1, <2>2 DEF RInv, KnownQemu, Live, PhaseFits, IsActive
  <2>5. TermFirst'
    BY <2>1, <2>2 DEF RInv, TermFirst, Live, IsActive
  <2>6. HelpersWatched'
    BY <2>1, <2>2 DEF RInv, HelpersWatched, Waits
  <2> QED
    BY <2>3, <2>4, <2>5, <2>6 DEF KnownRun
<1> QED
  BY <1>1, <1>2, <1>3 DEF TickHelperFailed, TickQemuEnded, TickExited, ForceOffHelpers
LEMMA QmpSignalsKeep ==
    ASSUME RInv, QmpSignal
    PROVE  KnownRun'
<1>0. UNCHANGED <<manager, launched, qemu, term, virtiofsd, victims, helpers>>
  BY DEF QmpSignal, QmpReady, QmpFailed, QmpClosed, QmpMessage, processVars, historyVars
<1>1. CASE QmpReady
  <2>1. /\ link = "waiting" /\ phase \in {"Qemu", "Attach"} /\ peer = launched
        /\ launched \in Runs /\ qemu[launched] \in {"serving", "leaving"} /\ pid = launched
    BY <1>1 DEF QmpReady, Serving, Live, RInv, PhaseFits, KnownQemu, LastOnly
  <2>2. /\ link' = "ready" /\ phase' = "Idle"
        /\ UNCHANGED <<pid, peer, state, killStep, killTimer, reported, pidFile, qmpSock, fsSocks>>
    BY <1>1 DEF QmpReady, fileVars, historyVars
  <2>3. LastOnly'
    BY <1>0, <2>2 DEF RInv, LastOnly, Live
  <2>4. KnownQemu'
    BY <1>0, <2>1, <2>2 DEF RInv, KnownQemu, Live
  <2>5. TermFirst'
    BY <1>0, <2>2 DEF RInv, TermFirst, Live, IsActive
  <2>6. \A r \in Runs, s \in Shares : ~Waits(r, s)
    BY <2>1 DEF RInv, HelpersWatched
  <2>7. HelpersWatched'
    BY <1>0, <2>2, <2>6 DEF HelpersWatched, Waits
  <2> QED
    BY <2>3, <2>4, <2>5, <2>7 DEF KnownRun
<1>2. CASE QmpFailed
  <2>1. /\ link = "waiting" /\ link' = "none" /\ peer' = None
        /\ UNCHANGED <<state, killStep, killTimer>>
    BY <1>2 DEF QmpFailed, Unlink, timerVars
  <2>2. CASE phase # "Attach"
    <3>1. UNCHANGED <<phase, pid, reported, pidFile, qmpSock, fsSocks>>
      BY <1>2, <2>2 DEF QmpFailed, fileVars
    <3>2. phase = "Qemu" /\ IsActive
      BY <2>1, <2>2 DEF RInv, PhaseFits, IsActive
    <3>3. LastOnly' /\ KnownQemu'
      BY <1>0, <2>1, <3>1, <3>2 DEF RInv, LastOnly, KnownQemu, Live, IsActive
    <3>4. TermFirst' /\ HelpersWatched'
      BY <1>0, <2>1, <3>1 DEF RInv, TermFirst, HelpersWatched, Waits, Live, IsActive
    <3> QED
      BY <3>3, <3>4 DEF KnownRun
  <2>3. CASE phase = "Attach"
    <3>1. /\ phase' = "Idle"
          /\ \/ reported' = TRUE /\ UNCHANGED <<pid, pidFile, qmpSock, fsSocks>>
             \/ ~Alive(pid) /\ pidFile' = None /\ qmpSock' = None /\ fsSocks' = {}
      BY <1>2, <2>3 DEF QmpFailed, RemoveRuntimeFiles, RemoveFiles, fileVars
    <3>2. pid = launched /\ (~Alive(pid) => ~Live(launched)) /\ ~killTimer
      BY <2>3 DEF RInv, PhaseFits, KnownQemu, TermFirst, Alive
    <3>3. LastOnly'
      BY <1>0, <2>1, <3>1 DEF RInv, LastOnly, Live
    <3>4. KnownQemu'
      BY <1>0, <2>1, <2>3, <3>1, <3>2 DEF RInv, KnownQemu, Live
    <3>5. TermFirst'
      BY <1>0, <2>1, <3>2 DEF RInv, TermFirst
    <3>6. HelpersWatched'
      BY <1>0, <2>3, <3>1 DEF RInv, HelpersWatched, Waits
    <3> QED
      BY <3>3, <3>4, <3>5, <3>6 DEF KnownRun
  <2> QED
    BY <2>2, <2>3
<1>3. CASE QmpClosed
  <2>1. /\ peer = launched /\ pid = launched /\ launched \in Runs /\ phase = "Idle"
        /\ qemu[launched] \in {"closed", "gone", "killed"}
    BY <1>3 DEF QmpClosed, Serving, RInv, KnownQemu, PhaseFits
  <2>2. /\ link' = "none" /\ peer' = None /\ phase' = "Exiting" /\ state' = "Stopping"
        /\ killTimer' = FALSE /\ UNCHANGED <<pid, reported, pidFile, qmpSock, fsSocks>>
    BY <1>3 DEF QmpClosed, Unlink, fileVars, historyVars
  <2>3. LastOnly' /\ KnownQemu'
    BY <1>0, <2>1, <2>2 DEF RInv, LastOnly, KnownQemu, Live, IsActive
  <2>4. TermFirst' /\ HelpersWatched'
    BY <1>0, <2>1, <2>2 DEF RInv, TermFirst, HelpersWatched, Waits
  <2> QED
    BY <2>3, <2>4 DEF KnownRun
<1>4. CASE QmpMessage
  <2>1. /\ link = "ready" /\ state' \in {"Stopping", "Running", "Paused"}
        /\ UNCHANGED <<phase, pid, link, peer, killStep, killTimer, reported, pidFile, qmpSock,
                       fsSocks>>
    BY <1>4 DEF QmpMessage, Shown, timerVars, fileVars, historyVars
  <2>2. LastOnly' /\ KnownQemu'
    BY <1>0, <2>1 DEF RInv, LastOnly, KnownQemu, Live, IsActive
  <2>3. TermFirst' /\ HelpersWatched'
    BY <1>0, <2>1 DEF RInv, TermFirst, HelpersWatched, Waits, Live, IsActive
  <2> QED
    BY <2>2, <2>3 DEF KnownRun
<1> QED
  BY <1>1, <1>2, <1>3, <1>4 DEF QmpSignal

(* A signal, with the timer of forceOff() as it is then.                   *)
LEMMA SignalKeeps ==
    ASSUME RInv, manager, IsActive, phase # "Helpers",
           UNCHANGED <<manager, phase, pid, helpers, link, peer, fileVars, launched, virtiofsd,
                       reported>>,
           state' # "Stopped",
           \/ /\ SignalNobody
              /\ killTimer' => killStep' = 0 \/ (killTimer /\ killStep' = killStep) \/ ~Live(pid)
           \/ /\ SignalQemu(pid, "SIGTERM")
           \/ /\ SignalQemu(pid, "SIGKILL")
              /\ Live(pid) => pid \in term
              /\ killTimer' = FALSE
    PROVE  KnownRun'
<1>1. /\ \A r \in Runs : qemu'[r] = qemu[r]
                         \/ (Live(r) /\ r = pid /\ qemu'[r] = "killed" /\ r \in term)
      /\ term \subseteq term'
      /\ victims' = {}
  BY DEF SignalNobody, SignalQemu, IsOurs, RInv, TypeOK, ProcessTypes, TermFirst
<1>2. \A r \in Runs : Live(r)' => Live(r) /\ qemu'[r] = qemu[r]
  BY <1>1 DEF Live
<1>3. UNCHANGED <<pidFile, qmpSock, fsSocks>>
  BY DEF fileVars
<1>4. LastOnly'
  BY <1>2, <1>3 DEF RInv, LastOnly
<1>5. KnownQemu'
  <2>1. Live(launched)' => Live(launched) /\ qemu'[launched] = qemu[launched]
    BY <1>2 DEF Live
  <2>2. launched \in Runs =>
          qemu'[launched] = qemu[launched] \/ (qemu'[launched] = "killed")
    BY <1>1
  <2> QED
    BY <1>3, <2>1, <2>2 DEF RInv, KnownQemu, IsActive
<1>6. TermFirst'
  <2>1. Live(pid)' => Live(pid)
    BY <1>2 DEF Live
  <2>2. killTimer' /\ killStep' # 0 /\ Live(pid)' => pid \in term'
    BY <1>1, <2>1 DEF RInv, TermFirst, SignalQemu, Alive, IsOurs
  <2>3. \A r \in Runs : qemu'[r] = "killed" => r \in term'
    BY <1>1 DEF RInv, TermFirst
  <2> QED
    BY <1>1, <2>2, <2>3 DEF TermFirst, IsActive
<1>7. HelpersWatched'
  BY <1>1, <1>3 DEF RInv, HelpersWatched, Waits
<1> QED
  BY <1>4, <1>5, <1>6, <1>7 DEF KnownRun

LEMMA ForcesKeep ==
    ASSUME RInv, KillTimeout \/ ForceOff
    PROVE  KnownRun'
<1>1. CASE KillTimeout
  <2>1. /\ manager /\ killTimer /\ IsActive /\ phase # "Helpers" /\ state # "Stopped"
        /\ UNCHANGED <<manager, state, phase, pid, helpers, link, peer, fileVars, launched,
                       virtiofsd, reported>>
    BY <1>1 DEF KillTimeout, RInv, TermFirst, IsActive, linkVars
  <2>2. \/ SignalNobody /\ killTimer' = FALSE
        \/ SignalNobody /\ ~Live(pid)
        \/ SignalQemu(pid, "SIGTERM")
        \/ /\ SignalQemu(pid, "SIGKILL") /\ killStep # 0 /\ killTimer' = FALSE
    BY <1>1 DEF KillTimeout, Escalate, KillsLater, Alive
  <2>3. killStep # 0 => (Live(pid) => pid \in term)
    BY <2>1 DEF RInv, TermFirst
  <2> QED
    BY <2>1, <2>2, <2>3, SignalKeeps
<1>2. CASE ForceOff
  <2>1. /\ manager /\ IsActive /\ phase # "Helpers" /\ state' # "Stopped"
        /\ UNCHANGED <<manager, phase, pid, helpers, link, peer, fileVars, launched, virtiofsd,
                       reported>>
    BY <1>2 DEF ForceOff, IsActive
  <2>2. \/ SignalNobody /\ killStep' = 0
        \/ SignalNobody /\ ~Live(pid)
        \/ SignalQemu(pid, "SIGTERM")
    BY <1>2 DEF ForceOff, Escalate, Alive
  <2> QED
    BY <2>1, <2>2, SignalKeeps
<1> QED
  BY <1>1, <1>2

LEMMA ManagerKeeps ==
    ASSUME Patient, RInv, ManagerQuits \/ ManagerStarts
    PROVE  KnownRun'
<1>1. CASE ManagerStarts
  <2>1. ~manager /\ phase = "Idle" /\ ~IsActive /\ ~killTimer /\ link = "none"
    BY <1>1 DEF ManagerStarts, RInv, PhaseFits, TermFirst
  <2>2. CASE RunningPid # None
    <3>1. AttachTo(RunningPid, "vm") /\ UNCHANGED <<state, helpers, fileVars, processVars>>
          /\ killTimer' = killTimer /\ victims' = victims
      BY <1>1, <2>2 DEF ManagerStarts, timerVars
    <3> QED
      BY <2>1, <2>2, <3>1, AttachKeeps
  <2>3. CASE RunningPid = None
    <3>1. /\ \A r \in Runs : ~Live(r)
          /\ ~Live(launched)
          /\ \A r \in Runs, s \in Shares : ~Waits(r, s)
      BY <2>1, <2>3, NothingLeft
    <3>2. /\ pidFile' = None /\ qmpSock' = None
          /\ UNCHANGED <<pid, phase, link, peer, state, helpers, killTimer, launched, qemu, term,
                         virtiofsd, victims>>
      BY <1>1, <2>3 DEF ManagerStarts, RemoveRuntimeFiles, RemoveFiles, linkVars, timerVars,
                        processVars
    <3>3. LastOnly' /\ KnownQemu'
      BY <2>1, <3>1, <3>2 DEF RInv, LastOnly, KnownQemu, Live
    <3>4. TermFirst' /\ HelpersWatched'
      BY <2>1, <3>1, <3>2 DEF RInv, TermFirst, HelpersWatched, Waits
    <3> QED
      BY <3>3, <3>4 DEF KnownRun
  <2> QED
    BY <2>2, <2>3
<1>2. CASE ManagerQuits
  <2>1. /\ manager' = FALSE /\ state' = "Stopped" /\ phase' = "Idle" /\ link' = "none"
        /\ peer' = None /\ pid' = None /\ killTimer' = FALSE
        /\ UNCHANGED <<launched, qemu, term, victims>>
    BY <1>2 DEF ManagerQuits, Leaves, ResetRunner, Unlink
  <2>2. ~(Live(launched) /\ qemu[launched] = "booting")
    BY <1>2 DEF ManagerQuits, Leaves, Patient, RInv, KnownQemu
  <2>3. /\ \A r \in Runs, s \in Shares : ~Waits(r, s)'
        /\ \A r \in Runs, s \in Shares : r > launched => virtiofsd'[r][s] = "none"
        /\ pidFile' \in {None, launched} /\ qmpSock' \in {None, launched}
        /\ Live(launched) => pidFile' = launched
    <3>1. CASE phase = "Helpers"
      <4>1. \A r \in Runs, s \in Shares :
              virtiofsd'[r][s] = IF r = launched /\ s \in helpers /\ HelperAlive(r, s)
                                 THEN "gone" ELSE virtiofsd[r][s]
        BY <1>2, <3>1 DEF ManagerQuits, EndHelpers
      <4>2. \A r \in Runs, s \in Shares : ~Waits(r, s)'
        BY <4>1 DEF RInv, HelpersWatched, Waits, HelperAlive
      <4>3. \A r \in Runs : r > launched => r # launched
        BY DEF Runs, RInv, TypeOK, ProcessTypes
      <4>4. \A r \in Runs, s \in Shares : r > launched => virtiofsd'[r][s] = "none"
        BY <4>1, <4>3 DEF RInv, LastOnly
      <4>5. ~Live(launched) /\ pidFile' = None /\ qmpSock' = None
        BY <1>2, <3>1 DEF ManagerQuits, RemoveRuntimeFiles, RemoveFiles, RInv, KnownQemu
      <4> QED
        BY <4>2, <4>4, <4>5
    <3>2. CASE phase # "Helpers"
      <4>1. UNCHANGED <<virtiofsd, pidFile, qmpSock>>
        BY <1>2, <3>2 DEF ManagerQuits, fileVars
      <4>2. phase = "Qemu" => Live(launched) /\ qemu[launched] # "booting"
        BY <1>2 DEF ManagerQuits, Leaves, Patient, RInv, KnownQemu
      <4>3. \A r \in Runs, s \in Shares : ~Waits(r, s)
        BY <3>2, <4>2 DEF RInv, HelpersWatched, Live
      <4> QED
        BY <2>2, <4>1, <4>3 DEF RInv, LastOnly, KnownQemu, Waits
    <3> QED
      BY <3>1, <3>2
  <2>4. LastOnly'
    BY <2>1, <2>3 DEF RInv, LastOnly, Live
  <2>5. KnownQemu'
    BY <2>1, <2>2, <2>3 DEF KnownQemu, Live
  <2>6. TermFirst' /\ HelpersWatched'
    BY <2>1, <2>3 DEF RInv, TermFirst, HelpersWatched
  <2> QED
    BY <2>4, <2>5, <2>6 DEF KnownRun
<1> QED
  BY <1>1, <1>2

(* What QEMU and virtiofsd do, the manager as it was.                      *)
LEMMA StagesKeep ==
    ASSUME RInv, NEW r \in Runs,
           \/ QemuListens(r) \/ QemuShutsDown(r) \/ QemuCloses(r) \/ QemuExits(r)
           \/ QemuDies(r) \/ (QemuHandles /\ r = peer /\ Stage(r, {"serving"}, "leaving"))
    PROVE  KnownRun'
<1>0. /\ UNCHANGED <<managerVars, link, peer, term, virtiofsd, fsSocks, launched, victims, reported>>
      /\ qemu \in [Runs -> QemuStages]
  BY DEF QemuListens, QemuShutsDown, QemuCloses, QemuExits, QemuDies, QemuHandles, External,
         linkVars, fileVars, historyVars, RInv, TypeOK, ProcessTypes
<1>1. UNCHANGED <<manager, state, phase, pid, helpers, killStep, killTimer>>
  BY <1>0 DEF managerVars, runnerVars, timerVars
<1>2. /\ Live(r) /\ r = launched
      /\ \A q \in Runs : q # r => qemu'[q] = qemu[q]
      /\ \/ qemu[r] = "named" /\ qemu'[r] = "serving"
         \/ qemu[r] \in {"serving", "leaving"} /\ qemu'[r] \in {"leaving", "closed"}
         \/ qemu'[r] = "gone"
  <2>1. Live(r)
    BY DEF QemuListens, QemuShutsDown, QemuCloses, QemuExits, QemuDies, Stage, Live
  <2>2. \A q \in Runs : q # r => qemu'[q] = qemu[q]
    BY <1>0 DEF QemuListens, QemuShutsDown, QemuCloses, QemuExits, QemuDies, Stage
  <2>3. \/ qemu[r] = "named" /\ qemu'[r] = "serving"
        \/ qemu[r] \in {"serving", "leaving"} /\ qemu'[r] \in {"leaving", "closed"}
        \/ qemu'[r] = "gone"
    BY <1>0 DEF QemuListens, QemuShutsDown, QemuCloses, QemuExits, QemuDies, Stage
  <2> QED
    BY <2>1, <2>2, <2>3 DEF RInv, LastOnly
<1>3. /\ pidFile' \in {None, launched} /\ qmpSock' \in {None, launched}
      /\ qemu'[r] # "gone" => pidFile' = pidFile
  BY <1>0, <1>2 DEF QemuListens, QemuShutsDown, QemuCloses, QemuExits, QemuDies, QemuHandles,
                    Stage, fileVars, RInv, LastOnly, QemuStages
<1>4. LastOnly'
  BY <1>0, <1>2, <1>3 DEF RInv, LastOnly, Live
<1>5. KnownQemu'
  BY <1>0, <1>1, <1>2, <1>3 DEF RInv, KnownQemu, Live, IsActive
<1>6. TermFirst'
  BY <1>0, <1>1, <1>2 DEF RInv, TermFirst, Live, IsActive
<1>7. HelpersWatched'
  BY <1>0, <1>1, <1>2 DEF RInv, HelpersWatched, KnownQemu, Waits
<1> QED
  BY <1>4, <1>5, <1>6, <1>7 DEF KnownRun

LEMMA WritesPidKeeps ==
    ASSUME RInv, NEW r \in Runs, QemuWritesPid(r)
    PROVE  KnownRun'
<1>0. /\ UNCHANGED <<managerVars, link, peer, term, fsSocks, qmpSock, launched, victims, reported>>
      /\ qemu \in [Runs -> QemuStages] /\ virtiofsd \in [Runs -> [Shares -> HelperStages]]
  BY DEF QemuWritesPid, External, linkVars, historyVars, RInv, TypeOK, ProcessTypes
<1>1. UNCHANGED <<manager, state, phase, pid, helpers, killStep, killTimer>>
  BY <1>0 DEF managerVars, runnerVars, timerVars
<1>2. /\ r = launched /\ pidFile' = r /\ qemu[r] = "booting" /\ phase = "Qemu"
      /\ \A q \in Runs : qemu'[q] = IF q = r THEN "named" ELSE qemu[q]
  BY <1>0 DEF QemuWritesPid, Stage, Live, RInv, LastOnly, KnownQemu
<1>3. \A q \in Runs, s \in Shares :
        virtiofsd'[q][s] = IF q = r /\ virtiofsd[q][s] = "listening"
                           THEN "connected" ELSE virtiofsd[q][s]
  BY <1>0 DEF QemuWritesPid
<1>4. LastOnly'
  BY <1>0, <1>2, <1>3 DEF RInv, LastOnly, Live
<1>5. KnownQemu'
  BY <1>0, <1>1, <1>2 DEF RInv, KnownQemu, Live, IsActive
<1>6. TermFirst'
  BY <1>0, <1>1, <1>2 DEF RInv, TermFirst, Live, IsActive
<1>7. HelpersWatched'
  BY <1>0, <1>1, <1>2, <1>3 DEF RInv, HelpersWatched, Waits
<1> QED
  BY <1>4, <1>5, <1>6, <1>7 DEF KnownRun

LEMMA VirtiofsdKeeps ==
    ASSUME RInv, \/ \E s \in Shares : VirtiofsdListens(s)
                 \/ \E r \in Runs, s \in Shares : VirtiofsdEnds(r, s)
    PROVE  KnownRun'
<1>0. /\ UNCHANGED <<managerVars, link, peer, qemu, term, pidFile, qmpSock, launched, victims,
                     reported>>
      /\ virtiofsd \in [Runs -> [Shares -> HelperStages]]
  BY DEF VirtiofsdListens, VirtiofsdEnds, External, linkVars, fileVars, historyVars, RInv,
         TypeOK, ProcessTypes
<1>1. UNCHANGED <<manager, state, phase, pid, helpers, killStep, killTimer>>
  BY <1>0 DEF managerVars, runnerVars, timerVars
<1>2. KnownQemu' /\ TermFirst'
  BY <1>0, <1>1 DEF RInv, KnownQemu, TermFirst, Live, IsActive
<1>3. ASSUME NEW s \in Shares, VirtiofsdListens(s) PROVE LastOnly' /\ HelpersWatched'
  <2>1. /\ launched \in Runs /\ virtiofsd[launched][s] = "starting"
        /\ fsSocks' = fsSocks \cup {s}
        /\ \A q \in Runs, t \in Shares :
             virtiofsd'[q][t] = IF q = launched /\ t = s THEN "listening" ELSE virtiofsd[q][t]
    BY <1>0, <1>3 DEF VirtiofsdListens, RInv, TypeOK, ProcessTypes
  <2>2. \A q \in Runs : q > launched => q # launched
    BY DEF Runs, RInv, TypeOK, ProcessTypes
  <2>3. LastOnly'
    BY <1>0, <2>1, <2>2 DEF RInv, LastOnly, Live
  <2>4. \A q \in Runs, t \in Shares : Waits(q, t)' => Waits(q, t)
    BY <2>1 DEF Waits
  <2>5. \A q \in Runs : virtiofsd'[q][s] # "starting"
    BY <2>1 DEF RInv, HelpersWatched, Waits
  <2>6. HelpersWatched'
    BY <1>0, <1>1, <2>1, <2>4, <2>5 DEF RInv, HelpersWatched
  <2> QED
    BY <2>3, <2>6
<1>4. ASSUME NEW r \in Runs, NEW s \in Shares, VirtiofsdEnds(r, s)
      PROVE  LastOnly' /\ HelpersWatched'
  <2>1. /\ virtiofsd[r][s] # "none" /\ fsSocks' = fsSocks
        /\ \A q \in Runs, t \in Shares :
             virtiofsd'[q][t] = IF q = r /\ t = s THEN "gone" ELSE virtiofsd[q][t]
    BY <1>0, <1>4 DEF VirtiofsdEnds, fileVars
  <2>2. LastOnly'
    BY <1>0, <2>1 DEF RInv, LastOnly, Live
  <2>3. HelpersWatched'
    BY <1>0, <1>1, <2>1 DEF RInv, HelpersWatched, Waits
  <2> QED
    BY <2>2, <2>3
<1> QED
  BY <1>2, <1>3, <1>4 DEF KnownRun

LEMMA SameKeeps ==
    ASSUME RInv, UNCHANGED <<manager, state, phase, pid, helpers, killStep, killTimer, link, peer,
                             pidFile, qmpSock, fsSocks, launched, qemu, term, virtiofsd,
                             reported, victims>>
    PROVE  KnownRun'
<1>1. LastOnly' /\ KnownQemu' /\ TermFirst'
  BY DEF RInv, LastOnly, KnownQemu, TermFirst, Live, IsActive
<1>2. HelpersWatched'
  BY DEF RInv, HelpersWatched, Waits
<1> QED
  BY <1>1, <1>2 DEF KnownRun

LEMMA StepKnownRun ==
    ASSUME Patient, RInv, [Next]_vars
    PROVE  KnownRun'
<1> USE DEF managerVars, runnerVars, timerVars, linkVars, fileVars, processVars, historyVars
<1>1. CASE StartLeftRunning
  <2>1. phase = "Idle" /\ ~killTimer /\ RunningPid # None
    BY <1>1 DEF StartLeftRunning, MayStart, RInv, TermFirst
  <2> QED
    BY <1>1, <2>1, AttachKeeps DEF StartLeftRunning
<1>2. CASE StartRefused
  <2>1. ~Live(launched)
    BY <1>2, NothingLeft DEF StartRefused, BeginRun, MayStart
  <2> QED
    BY <1>2, <2>1, OverKeeps DEF StartRefused, BeginRun
<1>3. CASE StartQemu \/ StartHelpers
  BY <1>3, StartsKeep
<1>4. CASE Tick \/ ForceOffHelpers
  BY <1>4, TicksKeep DEF Tick
<1>5. CASE QmpSignal
  BY <1>5, QmpSignalsKeep
<1>6. CASE KillTimeout \/ ForceOff
  BY <1>6, ForcesKeep
<1>7. CASE ManagerQuits \/ ManagerCrashes \/ ManagerStarts
  BY <1>7, ManagerKeeps DEF ManagerCrashes, Patient
<1>8. CASE PauseOrResume \/ UNCHANGED vars
  BY <1>8, SameKeeps DEF PauseOrResume, vars
<1>9. CASE QemuHandles
  <2>1. CASE UNCHANGED qemu
    BY <1>9, <2>1, SameKeeps DEF QemuHandles, External
  <2>2. CASE Stage(peer, {"serving"}, "leaving")
    BY <1>9, <2>2, StagesKeep DEF QemuHandles
  <2> QED
    BY <1>9, <2>1, <2>2 DEF QemuHandles, QemuTurns
<1>10. ASSUME NEW r \in Runs, Qemu(r) PROVE KnownRun'
  <2>1. CASE QemuGuestChanges(r) \/ PidReused(r)
    BY <2>1, SameKeeps DEF QemuGuestChanges, QemuTurns, PidReused, External
  <2> QED
    BY <1>10, <2>1, StagesKeep, WritesPidKeeps DEF Qemu
<1>11. CASE \/ \E s \in Shares : VirtiofsdListens(s)
            \/ \E r \in Runs, s \in Shares : VirtiofsdEnds(r, s)
  BY <1>11, VirtiofsdKeeps
<1> QED
  BY <1>1, <1>2, <1>3, <1>4, <1>5, <1>6, <1>7, <1>8, <1>9, <1>10, <1>11 DEF Next, User
LEMMA StepRInv ==
    ASSUME Patient
    PROVE  RInv /\ [Next]_vars => RInv'
<1>1. StartsClear = TRUE
  BY ConstantsAssumption DEF Patient
<1> SUFFICES ASSUME RInv, [Next]_vars PROVE RInv'
  OBVIOUS
<1>2. TypeOK' /\ PhaseFits'
  BY <1>1, StepPhase, StepFlagTypes, StepRunnerTypes, StepLinkTypes, StepProcessTypes,
     StepFileTypes DEF RInv, TypeOK
<1> QED
  BY <1>2, StepKnownRun DEF RInv, KnownRun

LEMMA PatientInvariance ==
    ASSUME Patient
    PROVE  SafeSpec => []RInv
<1>1. Init => RInv
  BY InitType, InitPhase, InitKnownRun DEF RInv, KnownRun
<1> QED
  BY <1>1, StepRInv, PTL DEF SafeSpec

(***************************************************************************)
(* Two QEMUs never run on the disks of the VM, and one that runs is never  *)
(* taken for a stopped VM, however the manager goes and comes back         *)
(* (start(), attach(), runningPid(), cleanup()).                           *)
(***************************************************************************)
THEOREM OneQemuKnown ==
    ASSUME Patient
    PROVE  SafeSpec => []OneKnownQemu
<1>1. RInv => OneKnownQemu
  BY DEF RInv, LastOnly, KnownQemu, OneKnownQemu, OneQemu, NoQemuForgotten
<1> QED
  BY <1>1, PatientInvariance, PTL

(***************************************************************************)
(* A process is signalled only while it is the QEMU of this VM, and killed *)
(* only after SIGTERM (signalIfOurs(), escalate()).                        *)
(***************************************************************************)
THEOREM CarefulSignals ==
    ASSUME Patient
    PROVE  SafeSpec => []SignalsWithCare
<1>1. RInv => SignalsWithCare
  BY DEF RInv, TermFirst, SignalsWithCare
<1> QED
  BY <1>1, PatientInvariance, PTL

(***************************************************************************)
(* No virtiofsd is left waiting for a QEMU that will never come, once the  *)
(* manager has quit and once a start has failed or was forced off          *)
(* (~VmRunner(), cleanup(), endHelpers()).                                 *)
(***************************************************************************)
THEOREM NoneStranded ==
    ASSUME Patient
    PROVE  SafeSpec => []NoStrandedHelper
<1>1. RInv => NoStrandedHelper
  BY DEF RInv, PhaseFits, HelpersWatched, Waits, NoStrandedHelper
<1> QED
  BY <1>1, PatientInvariance, PTL

(***************************************************************************)
(* "The run is over: QEMU is gone, or never started" (vmrunner.cpp:342):   *)
(* when a VM becomes Stopped, none of its QEMUs lives.                     *)
(***************************************************************************)
THEOREM OverMeansGone ==
    ASSUME Patient
    PROVE  SafeSpec => GoneWhenOver
<1>1. ASSUME RInv, RInv', [Next]_vars, IsActive, ~IsActive', manager'
      PROVE  \A r \in Runs : ~Live(r)'
  <2>1. state # "Stopped" /\ state' = "Stopped"
    BY <1>1 DEF IsActive
  <2>2. Cleanup
    <3>1. ~(StartLeftRunning \/ StartRefused \/ StartQemu \/ StartHelpers)
      BY <2>1 DEF StartLeftRunning, StartRefused, StartQemu, StartHelpers, BeginRun, MayStart,
                  IsActive
    <3>2. ~(TickQemuRuns \/ QmpSignal \/ PauseOrResume \/ KillTimeout \/ ForceOff)
      BY <2>1 DEF TickQemuRuns, QmpSignal, QmpReady, QmpFailed, QmpClosed, QmpMessage, Shown,
                  PauseOrResume, KillTimeout, ForceOff, managerVars, runnerVars
    <3>3. ~(ManagerQuits \/ ManagerCrashes \/ ManagerStarts)
      BY <1>1, <2>1 DEF ManagerQuits, ManagerCrashes, Leaves, ManagerStarts
    <3>4. ~(\/ QemuHandles \/ UNCHANGED vars
            \/ \E r \in Runs : Qemu(r)
            \/ \E s \in Shares : VirtiofsdListens(s)
            \/ \E r \in Runs, s \in Shares : VirtiofsdEnds(r, s))
      BY <2>1 DEF QemuHandles, Qemu, QemuWritesPid, QemuListens, QemuGuestChanges, QemuShutsDown,
                  QemuCloses, QemuExits, QemuDies, PidReused, VirtiofsdListens, VirtiofsdEnds,
                  External, vars, managerVars, runnerVars
    <3>5. CASE TickHelperFailed \/ TickQemuEnded \/ TickExited \/ ForceOffHelpers
      BY <3>5 DEF TickHelperFailed, TickQemuEnded, TickExited, ForceOffHelpers, EndRun
    <3>6. CASE TickHelpersListen
      BY <2>1, <3>6 DEF TickHelpersListen, EndRun
    <3> QED
      BY <1>1, <3>1, <3>2, <3>3, <3>4, <3>5, <3>6 DEF Next, Tick, User
  <2>3. Live(launched)' => pid' = launched' /\ launched' # None
    BY <1>1 DEF RInv, KnownQemu, Live, Runs, None
  <2> QED
    BY <1>1, <2>2, <2>3 DEF Cleanup, RInv, LastOnly
<1>2. RInv /\ RInv' /\ [Next]_vars
        => [IsActive /\ ~IsActive' /\ manager' => \A r \in Runs : ~Live(r)']_vars
  BY <1>1
<1>3. SafeSpec => []RInv
  BY PatientInvariance
<1> QED
  BY <1>2, <1>3, PTL DEF SafeSpec, GoneWhenOver
=============================================================================
