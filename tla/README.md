# A verification model of QEMU GUI Manager

TLA+ specifications of QEMU GUI Manager (`src/core`, `src/ui`): of what it does
with processes that outlive it, sockets that close in the middle of a request
and timers that race with answers, and of what it makes of the arguments and
files of a VM. The specifications are translated from the C++ source; TLC checks
them on small instances, and TLAPS proves part of what they say for instances of
any size.

Line numbers are those of the files in this repository, by file name where that
is unique. `PROJECT.json` maps every definition that models code to its lines,
lists every component, also those not modelled, and the hazards line by line.

## The system

The manager is a Qt program with one thread. Everything it does is a handler:
a call from a button, a timer, a signal of a socket or of a child process. A
handler runs to its end before the next one starts, unless it opens a dialog
(a nested event loop) or calls a callback that calls back. So concurrency
is between the manager and what lives outside it: QEMU, virtiofsd, the guest,
`qemu-img`, `git` and `make`, the files of the user, and the next manager.

| Component | State | Operations | Talks to | Model |
|---|---|---|---|---|
| `QmpClient` | socket, `ready`, ids, queue, callbacks waiting | `connectToSocket`, `disconnectFromSocket`, `execute`; socket signals | QEMU; signals `ready`, `connectionFailed`, `disconnected`, `qmpEvent` to its owner | `QmpClient` |
| `VmRunner` | state, phase, pid, helpers, timers, stop and kill flags | `start`, `attach`, `pause`, `resume`, `powerdown`, `reset`, `forceOff`; `tick`, `escalate`, the QMP signals; destructor | `QmpClient`, `GuestAgent`, processes by pid, files in the runtime folder | `VmRunner` |
| `GuestAgent` | socket, sync id, callbacks by id, timers | `connectToSocket`, `exec`, `disconnectFromSocket`; replies, timeouts | qemu-ga in the guest; `VmRunner` mounts shares through it | `GuestMounts` |
| `VmSnapshots`, `SnapshotView` | busy flag, list, drives; the VM shown | `refresh`, `take`, `restore`, `remove`, `merge` | `QmpClient` of a running VM, `qemu-img` for a stopped one | `VmSnapshots` |
| `QemuBuilder` | list of steps, stamps on disk | `start`, `cancel`, `runNext` | `git`, `configure`, `ninja` | `QemuBuilder` |
| `VmStore`, `Vm` | the VMs, their folders and argument files | `reload` on a file system signal, `create`, `remove`, `save` | `VmRunner` (active VMs are kept), `MainWindow` | `Library` |
| `VmCloner` | the copy under way; what is copied and shared | `start`, `cancel`, `plan` | `cp`, `VmStore` | `Library`, `VmFiles` |
| `MainWindow`, `UsbAccess` | VM selected, questions open, starts that wait for USB access | `start`, `remove`, `clone`, `closeEvent`, `stateChanged`, `failed` | all of the above | `Library` |
| `ArgsFile`, `OptionValue` | lines and their items | parse, edit, write | | `ArgsFile` |
| `VmConfig`, `VmHardware`, `FirmwareDb` | none: settings of an `ArgsFile` | a getter and a setter for each | | `VmConfig`, `VmHardware` |
| `VmPane`, settings pages | arguments being edited, the page shown, what it compares with | load, change, switch, Apply, Discard | `Vm`, the file, `FirmwareDb` | `Settings` |
| `VmTemplate`, `NewVmDialog`, `Importer` | choices | make a VM, import a script | files of the VM | `VmFiles` |
| `FirmwareFiles`, `FirmwareRepair` | firmware copies of a VM | check, `recreate`, `reset` | files of the VM | `VmFiles` |
| `UpdateNotifier`, `UpdateCheck` | last check, answers awaited | `maybeCheck`, `checkNow`, `answered` | HTTP | no |
| `PerfStats`, `GpuContexts`, `MemoryMonitor` | last sample | `sample`, `reset` | `/proc`, `VmRunner::pid()` | no |
| `QemuInfo`, `QemuDocs` | cache by binary | load in the background | QEMU's help output | no |
| single instance (`main.cpp`) | lock, local socket | raise the window; attach to each VM | | the attach, in `VmRunner` |

What is hard about it, in the order in which it was modelled:

- **QEMU outlives the manager.** The only link between two managers is a pid
  file that QEMU itself writes some time after it was launched. Everything the
  first manager knew (why the VM stops, which shares it has) is gone.
- **Two views of the end.** A QEMU that ends closes its QMP socket first and its
  process ends later or never; the manager hears of both separately, and pids
  are reused.
- **Requests cross with events.** The answer to `query-status` may be older
  than an event that was read before the connection was up, and a lost
  connection leaves requests without an answer.
- **Re-entrance.** A failed callback may call `execute()` while the list of
  callbacks is being worked off.
- **Several disks, one snapshot.** Jobs that succeed on some disks and fail on
  others have to be undone, and the VM may change its state meanwhile.
- **Builds that go on from where they stopped**, told by stamps on disk what is
  done already.
- **A library that others change.** Folders and files come and go while VMs run,
  are cloned, or have unsaved edits, and the watcher tells of it later, once, or
  for a file that is no longer there.
- **One text, many editors.** Eight pages and the user's own editor change lines
  written in any of QEMU's styles; a setter must find its key wherever it is,
  leave the rest, and not undo the setter called before it.
- **Files that must stay whole**: firmware copies that are checked, made again
  and replaced step by step, and clones that must own what they write.
- **A port without sessions**: the guest agent answers on the next connection
  what was asked on the last one.

## The modules

    QmpLink  <=(implements)=  QmpClient        VmLifecycle  <=(implements)=  VmRunner
                                 |                                             |
                           QmpClientProofs                               VmRunnerProofs

    VmSnapshots   (over VmLifecycle's states and QmpLink's replies)     <- VmSnapshotsProofs
    GuestMounts   (over VmRunner's QMP events; QEMU and the manager
                   as phases)                                           <- GuestMountsProofs
    QemuBuilder                                                         <- QemuBuilderProofs
    Library       (over VmRunner as a phase, VmFiles' clone as a
                   count of copies)                                     <- LibraryProofs

    ArgsFile <- VmConfig <- VmHardware <- Settings <- SettingsProofs
                                       <- VmFiles  <- VmFilesProofs (of VmConfig, too)

`QmpLink` is what an owner may rely on; `QmpClient` shows that the code keeps
it; `VmRunner` is written against `QmpLink`'s view of a connection (`link`,
with what is in flight on it), and implements in turn `VmLifecycle`, what the
user interface relies on. `VmSnapshots`, `GuestMounts` and `Library` see both
from above. `ArgsFile`, `VmConfig` and `VmHardware` are operators without state,
translated setter by setter; `Settings` and `VmFiles` are the two state machines
that use them. Each state machine is instantiated for TLC by the module
`MC<name>` and the `.cfg` files beside it; `<name>Proofs` holds what TLAPS proves
of it.

Constants called gates say what the environment does not do. A gate is open
where the property holds anyway and closed where it needs it, and the tables
tell what happens when one is opened.

### QmpLink and QmpClient

`QmpClient.tla` has one action per handler of `qmpclient.cpp`. `failAll()` is
the exception: it calls callbacks, which may call `execute()`, so each callback
is a step (`CallFailed`), `Busy` keeps the event loop out until the last one,
and `after` says where the caller goes on. `failAll()` also guards against a
callback that closes the connection or deletes the client; no callback of the
manager does, or opens a dialog that waits, so the calls of the owner come while
it is not `Busy`. Commands are ids; JSON, texts and
the byte buffer are left out. QEMU's end greets, serves requests in order,
emits events and closes at any time. What a closing QEMU wrote may be read or
lost.

`QmpLink.tla` has no ids, queues or sockets: commands are owed an answer,
doomed by a lost connection, or settled. The refinement mapping is at the end
of `QmpClient.tla` (`KeepsContract`).

| Property | Says |
|---|---|
| `CalledOnce` | a callback is held in exactly one place or was called exactly once |
| `Handshake` | `NoOrphans` (replies are awaited on a ready connection only, and nothing queues on one) and `NegotiatedFirst` (no command is on the wire before `qmp_capabilities` was accepted) |
| `InOrder` | QEMU runs commands in the order of `execute()`, none twice |
| `EventuallyCalled` | a command that was sent is settled, by an answer or an error |
| `KeepsContract` | `QmpClient` implements `QmpLink`, its fairness included |

Run `qmp_client`: four ids, of which the handshakes of two connections take
two; two messages in flight. That is enough for a command that waits through a
failed attempt, one whose reply is lost, and one executed by a failed callback.
Fairness: `failAll()` ends, the event loop delivers, and QEMU, while open,
serves its requests. No fairness on the user, on connecting or on closing.

### VmLifecycle and VmRunner

`VmRunner.tla` models one VM: the runner of the manager (one action per
handler), the manager itself (it quits, is killed, starts again), QEMU and
virtiofsd as processes with the stages that `vmrunner.cpp` tells apart, and the
files of the runtime folder. A run has a number that stands for the pids of its
processes; several runs can be alive at once, which is what the properties are
about. Time is left out: a timer that runs may fire at any moment, so a timeout
may always come first.

Abstractions: the failures of `start()` before anything runs are one action
(`StartRefused`); SUSPEND and WAKEUP are as STOP and RESUME; `powerdown()` and
`reset()` only put a request on the wire that changes nothing here; a QEMU that
daemonizes is one that writes its own pid, as all do here; `-no-shutdown`
(SHUTDOWN without an end) is a QEMU that hangs while leaving.

| Gate | Closed, it means | Open, it gives |
|---|---|---|
| `ExitsInTime` | QEMU ends within `kExitTimeoutMs` of closing QMP | the VM is shown Stopped and forgotten while its QEMU still runs (vmrunner.cpp:422): `GoneWhenOver` and `OneKnownQemu` fail |
| `QuitsLate` | the manager does not go while QEMU boots or has just failed to | run `early_quit`; and virtiofsd that waits for a QEMU that never comes (the destructor, vmrunner.cpp:614): `NoStrandedHelper` fails |
| `StartsClear` | no `start()` between an attach's `ready` and the first status | `start()` begins the phase Qemu with the connection of the attach (vmrunner.cpp:685), and `GoneWhenOver` and `PhaseFits` fail |
| `KeepsPids` | the pid of a QEMU that ended is not given to another process | `ForceOffEnds` fails: if that pid goes to another process before the next tick (50 ms), `alive()` takes that process for QEMU |

| Property | Says | Run |
|---|---|---|
| `PhaseFits` | each wait has its timer, each timer its wait; an active VM that waits for no process has its QMP | `runner_slow` |
| `KeepsLifecycle` | `VmRunner` implements `VmLifecycle` | `runner_slow` |
| `ForceOffEnds` | `forceOff()` ends the run whatever QEMU does | `runner_slow` |
| `OneKnownQemu` | never two QEMUs on the disks of a VM, and one that runs is known, or its silence was reported | `runner_patient` |
| `SignalsWithCare` | no foreign process is signalled; SIGKILL only after SIGTERM | `runner_patient` |
| `NoStrandedHelper` | no virtiofsd waits for a QEMU that never comes | `runner_patient` |
| `ShowsTheGuest` | with nothing in flight the state shown is the state of the guest | `runner_slow` |
| `GoneWhenOver` | Stopped means that QEMU is gone | `runner_patient` |

`runner_slow` has QEMUs that hang or end late and a manager that may be killed
(`Crashes`), with `QuitsLate`, `StartsClear` and `KeepsPids` closed;
`runner_patient` has all closed but `KeepsPids`. Bounds: two runs (the old QEMU
and the new one), one departure of the manager; in `runner_slow` one folder that
a run may share and two messages in flight, in `runner_patient` two folders, of
which a run shares any, and one message. Two runs are needed for every property
that relates a QEMU to its successor, two folders for a virtiofsd that fails
while another one is up, and two messages for `query-status` and an event that
cross (`ShowsTheGuest`). The folders are
interchangeable in the code as in the model, so `runner_patient`, which has no
liveness, uses their symmetry.

Fairness (`runner_slow` only): the timers fire and the event loop handles what
has arrived. QEMU and virtiofsd may stop forever at any stage.

Run `early_quit` shows where the code does not do what its text says. Three more
things came up:

- `qmpClosed()` moves on to the phase Exit and stops the kill timer
  (vmrunner.cpp:477), so a QEMU that closes QMP and then hangs is not killed,
  though the user forced it off; the exit timeout ends the run instead, and the
  process stays.
- `start()` of a VM whose QEMU already runs attaches without keeping the
  arguments (vmrunner.cpp:690), and `mountShares()` then has no shares to mount.
- `attach()` waits for QMP without a timer (vmrunner.cpp:782): a QEMU that hangs
  leaves it waiting.

### GuestMounts

When qemu-ga opens its port in the guest, QEMU emits `VSERPORT_CHANGE`,
`VmRunner` makes a `GuestAgent` (src/core/guestagent.cpp), and that has the
agent run a mount script for one share after the other, polling each until it
ends. `agent` is the number of the connection, `syncing`, `step` and `share` say
what it waits for, `toGuest` and `fromGuest` are the bytes in the port as
requests and replies. The port knows no connections: `PortCloses` and `Connect`
keep any part of what is in it. The agent stops and starts, the guest reboots,
QEMU ends, and the manager quits and comes back, each at any step; a script ends
with success, without, or never. A share in `fstab.extra` may be mounted by
systemd before the agent is up, and the script then ends at once.

Abstractions: the ids that count from 1 on each connection are the command and
the share, which is coarser where it matters (a reply of an earlier connection
has the id that the new one waits for); the sync ids, milliseconds of the clock,
are the connections, so that two connections within one millisecond are left
out; a `GuestAgent` that is replaced is gone at once.

| Property | Says |
|---|---|
| `TellsTruly` | what `sharesMounted()` tells is of every share whether it was mounted, from the script run for it on this connection, or that the agent did not answer |
| `EachBootIsTold` | each time the agent opens its port to a manager that is connected with the VM's arguments, something is told, unless the agent goes |

Run `guest_mounts`: two shares (one of them may be mounted by systemd), three
times that the agent comes up, one quit. Two shares give a mounting that fails
half way, three openings an agent that restarts during the mounting of its
restart. Fairness: the event loop, the timers (with `DidNotEnd` strong, as the
clock of `pollExec()` goes on between polls), and an agent that has its port
open serves it. No fairness on scripts, the guest, QEMU or the user.

What the code does and no property demands:

- A connection that fails in the middle of mounting is told twice: `fail()`
  calls the callback that waits, which has the shares that are left fail and
  ends the mounting, and then `failed()` tells of the error alone.
  vmrunner.h:60 describes one telling for each boot.
- An agent that comes up while no manager is connected is never mounted: the
  event is gone when the next manager attaches. So is one after a `start()`
  that found QEMU running (vmrunner.cpp:690).
- Only the sync and the end of a program have a time limit; an agent that stops
  answering in between leaves the mounting as it is (this is why
  `EachBootIsTold` needs the agent to serve).
- Left out: `deleteLater()` of a replaced agent takes effect at the end of the
  round of the event loop. A reply of the old socket in the same round would
  call `mountNext()` with the new agent, or with none after `cleanup()`.

### VmSnapshots

A snapshot of the VM is a copy of one name on each of its disks. `disks` holds
the copies of each disk in their order, with the number of the `take()` that
made them: names are reused, takes are not. A VM that is live has its QEMU do
the work, in commands that are all or nothing (`savevm`, `transaction`,
`loadvm`, `delvm`); for a stopped one `runAll()` runs qemu-img disk by disk, and
stops at the first error except when it undoes. `job` is the action under way
with the disks it has left (a set: qemu-img takes them in their order), `flight`
the listings that were asked for, each with its generation. The VM around it
starts, ends and loses its connection at any step; `qmp` distinguishes the
moments in which `failAll()` calls callbacks while `state` still says that the
VM is live, because that is when a callback looks at it. `SnapshotView` shows
and hides the list, and when it shows another VM it leaves a busy `VmSnapshots`
to end alone: hence two jobs.

External, as the code expects them: QEMU holds image locks while it has the
disks open, so qemu-img fails; a name stands for the first snapshot that has
it; qemu-img creates a second one of the same name, QEMU does not. Dates, sizes
and texts are left out, also from `merge()`, of which the model keeps what is
listed: the files and whether there is a running state.

What may happen is a record, `conditions`, chosen in the first state, so that
one run has several kinds of circumstances and a property names the ones it
needs:

| Field | Restricted, it means | Otherwise |
|---|---|---|
| `startsIdle` | the VM is not started while qemu-img works | it is started between two disks: QEMU's locks make the rest fail, the undoing too, and a take is left on some disks (snapshots.cpp:338): `WholeSnapshots` fails |
| `breaks` without `"-d"` | removing from one disk does not fail by itself | `remove()` or an undo leaves a snapshot on some disks, and `restore()` applies it on those alone without an error (snapshots.cpp:379): `RestoredTogether` fails |
| `reselects` | the view stays with the VM | a second `VmSnapshots` lists the disks while the first works on them, and is not told of its end (snapshotview.cpp:154): `ListUpToDate` fails |
| `actsListed` | the user acts on a list that is up to date | a `take()` by an old list removes too little and `NoDoubles` fails |

| Property | Says | Needs |
|---|---|---|
| `WholeSnapshots` | with no action under way each take is on all disks or on none | all four (`Undisturbed`) |
| `RestoredTogether` | a restore that succeeded took all disks to the same take | all four |
| `NoDoubles` | no disk has two snapshots of one name | `actsListed`, `reselects` |
| `ListUpToDate` | a list that is shown, without an error and without an answer awaited, is that of the disks | `actsListed`, `reselects` |
| `EveryJobEnds` | every action is finished, whatever the VM does meanwhile | nothing |

Run `snapshots` (`MCVmSnapshots.tla`): `Anything`, a VM of one disk and one take
with nothing restricted; `OneView`, two disks and two takes with a view that
stays and an up-to-date list; `AtRest`, the same with the other two. A listing
that fails by itself is in `Anything`, where a stale list can do harm. One name,
which makes every second take a replacement, the hard case; one start. Fairness:
qemu-img ends, QEMU serves what it was sent, and the event loop goes on. None on
the user, nor on the VM starting or ending.

### QemuBuilder

A build is a list of steps, each a tool (git, a shell script, ninja), and what
it skips is decided by stamps that earlier builds left on disk. `steps` and
`process` are the list and how far its first step got; the rest of the state
is the disk, in terms of what was put there: the commit of QEMU's sources, what
`build.ninja` was configured for and what `qemu-system` was compiled from, the
commit and patches of virglrenderer's sources, whether its build folder has
the patches' renderers, what is installed; and the stamps beside them. A tool
works in two parts with anything in between: `Cancel`, `ManagerQuits` and
`ToolFails` may come after either. The options are those of the Build QEMU
window: the newest commit of the branch, with the virglrenderer patches of the
manager and of that branch, or without virglrenderer.

The stamps of the two virglrenderer scripts are removed before what they stand
for is touched. QEMU's own `kStamp` is not (qemubuilder.cpp:496), and that is
what the gate `ConfigureLeftAlone` is about: closed, configure is not stopped and
changes nothing when it fails; open, a configure that was stopped leaves the
stamp of the one before it, the next build with those options skips configure,
and `BuiltAsAsked` fails.

| Property | Says |
|---|---|
| `StampsTell` | the stamps of virglrenderer are true at any moment |
| `BuiltAsAsked` | a build that ends well is of the branch, options and virglrenderer asked for, whatever was stopped or failed before, and virglrenderer is the newest commit that takes the patches, or main without them |
| `NothingTwice` | sources are not rewritten, nor QEMU configured, for what they are already |

Run `builder`: three builds (one that ends well, one that is stopped, and one
that finds what both left), two branches, two sets of configure options, a push
to each repository. The patches of one branch fit a commit that those of the
other do not, and the last commit takes none.

### Library

The library of VMs and the window over it. `folder` is the disk: of each name
the version of its vm.args and how many of its disks are there. The watcher is
two kinds of event that come later (`dirEvent`, `fileEvents`) and the set of
files it still watches: a file that is replaced loses its watch, which
`FileChanged` sets again as `Vm` does. `store` and `args` are what the manager
has, `phase` a `VmRunner` seen as one value, `win`, `dialog`, `box`, `starting`
and `endedFrom` the members of `MainWindow`, and `clone` the copies that
`VmCloner` has left. A dialog is a state: while it is open only answers to it
come from the user, but folders, QEMUs and the answer of `UsbAccess` go on, as
in its nested event loop.

Operations: select, start (asked for USB access, answered or denied at any later
time), force off, edit, save, create, clone (each copy a step, failing or
cancelled), remove, close, and folders that are dropped in, taken away or edited
by hand; QEMU ends, refuses a command, or does not answer; the manager ends at
any point and a new one attaches.

| Property | Says |
|---|---|
| `ShowsTheFolders` | once the watcher has told everything, the list is that of the folders (and of VMs that ran when theirs went), each has what its vm.args says and watches it, and the window shows none that is gone |
| `SourceLeftAlone` | while a clone is copied, nothing of its source is started and its folder is not touched by the manager, except for a start that was waiting for USB access before |
| `WholeOrGone` | vm.args with disks are there only with all of them; what is less is a clone being made or left by a manager that was killed |
| `ButtonsFit` | the buttons are those for the VM selected and its state |
| `TellsWhy` | the title of a failure says whether a start, a run or an attach failed |
| `NoLostEdits` | the settings never turn to another VM, nor is the VM started or cloned, over changes nobody was asked about |

Run `library`: two names, of which one is a VM at first (a second one is made,
cloned or dropped in), one VM that is started, two disks, one change by hand and
one restart (3.8 million states). There is no gate: the user clones and removes
whatever the code lets him. `VmCloner` looks at the runner's state alone
(vmcloner.cpp:132), so a clone also begins while the source waits for access to
its USB devices, and when that is granted QEMU starts among the copies, although
vmcloner.h:21 says that the VM must be stopped; and it begins while an attach is
under way or failed, with a QEMU that runs all along. `SourceLeftAlone` has the
first as its exception, and speaks of what starts, not of what runs, because of
the second: nothing else starts the source, which is what a clone that takes
minutes in a nested event loop relies on.

Also met here, and left out of the model or excluded by a guard:

- A folder that appears before its vm.args does is not listed until the library
  folder changes again: only the library folder and listed files are watched.
- A VM whose folder goes while it runs stays listed with empty arguments and is
  not watched, also if the folder returns; `create()` may then make a second
  `Vm` of that id (`went` marks these VMs).
- Questions and the clone dialog run nested event loops in which
  `VmStore::reload()` can delete the `Vm` they are about (mainwindow.cpp:862);
  `Reload` excludes that step, since a use of freed memory has no outcomes to
  model.
- A second start that is asked for while one waits for USB access is dropped.

### ArgsFile, VmConfig and VmHardware

`ArgsFile.tla` is `core/argsfile.cpp` and `core/optionvalue.cpp`: a file is a
sequence of lines (options, directives, comments, blank ones), the value of an
option a sequence of items `<<key, value>>`. Words are strings that are compared
and never taken apart, so quoting and commas inside values are left out; parsing
decides what a line is (`Parse`), writing is its inverse up to the spelling of
what the code normalises (`ToText`). Lines are numbered from 1, with 0 for the
-1 of the code.

`VmConfig.tla` has every getter and setter of `core/vmconfig.cpp` (name, QEMU,
memory and its backend, processors, shares, PCI and USB devices, files), and
`VmHardware.tla` those of `core/vmhardware.cpp` and the choice of firmware in
`core/firmware.cpp` (machine, accelerator, graphics, disks, boot order). Numbers
with units are those of a small table. Left out: a list of accelerators in one
`-machine`, and firmware copied under another name than its template's.

### Settings

The Settings tab: `VmPane` and its eight pages. `file` is vm.args as text, `vm`
the `Vm`'s arguments, `args` the arguments being edited, `shown` what the widgets
of the page show and `was` what it compares them with. A page is loaded from
`args`, and saved into it when it is left or applied, only if it is modified, by
its setters in the order of the code. `Apply` writes files first (new disks,
copies of firmware), then vm.args; each may fail (`ApplyFails`). vm.args may be
changed by hand at any time, and the watcher tells of it later. It tells of the
manager's own save too; `Vm::reload` then finds the text it has and keeps its
arguments (`Reread`), so that this is a step only where it would read another
text. What differs only in blank lines at the end is no change.

| Property | Says |
|---|---|
| `ReadsBack` | a page that reads the arguments it saved shows what the user chose |
| `OthersStay` | saving a page changes nothing that another page shows, and no line that no page knows |
| `QemuTakesThem` | arguments that QEMU can read (no option without its value, ids unique, each device with its drive, no place taken twice) stay such |
| `FilesThere` | saved arguments name files that are there, whatever failed half way |
| `ShowsTheFile` | `KnowsTheFile` (what the watcher told of, the `Vm` has); `ShowsTheArguments` (without changes, the page shows what it would if it were loaded again); and `OldWhenTakenBack`: the arguments that the pages edit come to be others than those of the `Vm`, without changes, in one way only: vm.args changed by hand under changes that are taken back then |

`Agrees` and `View` name the exceptions, each from the code: flags of the
processor on the `-cpu` line, a firmware this computer does not have or cannot
copy (`FirmwareDb::apply` then changes nothing, and `saveBoot` does not look at
what it returns), the machine that Secure Boot needs, VGA on ARM.

Run `settings`: three files that between them have the styles the code
distinguishes (as the templates write them; `virt` on ARM with a memory backend,
`-M`, SCSI and directives; an old PC with `-hda`, `-vga`, several `-machine`),
one that is put there by hand, and any two changes, on any pages. Two are what
it takes for one setting to disturb another. No fairness: the properties are of
single saves and of states. Four descriptors of firmware, one of them combined
and one whose files cannot be copied, and a code file that none of them names.
One gate is closed, `RemovesMore` (several disks removed at once: run
`settings_two_disks`). That the pages stay on the old text when changes are taken
back (`VmPane::vmChanged` returns while there are changes, vmpane.cpp:267, and
nothing loads the page again afterwards) is not excluded but is the one
exception in `OldWhenTakenBack`; the next Apply then writes the old text over
what was written by hand.

What else the code does with some arguments, and the files above avoid:

1. `setAccelProperty()` leaves an empty `-machine` behind if `accel=` was all
   that the line had (vmhardware.cpp:182), and QEMU takes the next word for its
   value.
2. `setFirstBootDevice()` looks at the bootindex of disks only: one of a
   `-blockdev` disk or a network card stays, and two devices can have the same.
3. `FirmwareDb::apply()` does not remove `-pflash`, which then competes with the
   new flash drives.
4. `useSharedMemory()` without `-m` writes a backend of 1024 MiB, where QEMU
   would have had 128 (an exception in `OthersStay`).
5. Secure Boot in a VM without `-machine` writes `q35,smm=on`
   (firmware.cpp:217), an exception in `ReadsBack`.
6. The pages of PCI and USB devices compare a list in the order of the host with
   one in the order of the lines (settingspages.cpp:1769): where these differ, a
   page nobody touched counts as modified.
7. The watcher loses a vm.args that is removed and written again, and a change
   between `reload()` and `addPath()`.

### VmFiles

The files of a VM: what is made for it, what becomes of its firmware copies, and
what a clone copies. A file is what the code looks at: format, size, what its
head says, whether its qcow2 tables hold, its snapshots, and whose data it has.
`system` are the firmware templates of the computer, which an update can change.

| Action | Code |
|---|---|
| `Create` | `NewVmDialog`, `VmTemplate`, the firmware copied by `FirmwareDb` or not |
| `Import` | `Importer`: words of a script become lines, files are found or not |
| `Start` | `FirmwareRepair::checkBeforeStart` with what the user answers, and what `VmRunner::start` and QEMU do with the files there are |
| `Reset` | `FirmwareFiles::reset`, each of its steps failing or not, backups included |
| `Clone` | `VmCloner::plan` and its copies |
| `Use`, `ShutDown`, `Harm`, `RemoveFile`, `Update` | the guest, the host, and the user |

| Property | Says |
|---|---|
| `NewAsAsked` | a new VM reads back as what was chosen, with its firmware's files in its folder |
| `DamageIsTold` | a firmware copy is called damaged exactly when it lost what it held: not after use, an update, in a clone or under an imported name; each flash line has a file of its own, in the format it tells |
| `RunsWhole` | a VM that was not started anyway runs with all of its firmware, undamaged |
| `NothingLost` | nothing the manager does takes away what is in a file, whatever step fails |
| `CloneOwns` | no file that QEMU would write for a VM is written for its clone |
| `CloneSame` | only what is `Cloneable` is cloned; each file of a clone is the same file or one that holds the same, the rest of its arguments is the same but for name and addresses, and the addresses the two share are exactly those of `mac=` on `-nic` lines |

Run `vm_files` (`MCVmFiles.tla`): 864 choices in the New VM dialog on PC and ARM,
with the templates there or not; one of these VMs, two imported scripts and one
written by hand (with `-nic`, `-net nic`, `-hda` and `-blockdev` lines) go on, are used, harmed once, have their firmware replaced once
with nine combinations of failing steps, updated and cloned. A VM is used until
it is cloned; after that the two only start. There is no liveness here: every
action is a call that returns.

Besides run `clone_nameless`:

- `-nic …,mac=` is not among the addresses that a clone changes
  (vmcloner.cpp:104 looks for `macaddr` on `-nic`), though vmcloner.h:20 says that
  network cards get new ones. The VM written by hand has such a line, and
  `CloneSame` says exactly which addresses stay.
- An update of the system that brings firmware of another size makes
  `problem()` call the old copies damaged (firmwarefiles.cpp:330); `Update` keeps
  sizes and variable stores.
- `Reset` is one step with any of its parts failing: that the manager ends
  between two of them is left out.
- A `memory-backend-file` with `share=on` is shared by clone and source.
- What qemu-img wrote half stays if its removal fails as well; `DamageIsTold`
  leaves such a file out, as it was reported when it was written.

What the model assumes of its constants, each checked by TLC in the run: the
folders of two VMs have no file in common (`FoldersAssumption`); the name of a
backup is that of no other file or backup (`BackupAssumption`: in the code it is
the time, and a number if there is such a file; here a number up to `MaxBackups`,
which is more than the steps of the run can make, and a reset begins only where
one is free, `HasRoom`); and a variable store has the format that its descriptor
tells and is not the code (`TemplatesAssumption`).

## Disagreements

Three runs are expected to fail; "findings" in `PROJECT.json` quotes the lines.

| Run | Property | Shows |
|---|---|---|
| `early_quit` | `PicksUpAgain` | the manager quits before QEMU wrote its pid file, and the next manager does not find that QEMU |
| `settings_two_disks` | `OthersStay` | two disks removed at once, with their `-drive` and `-device` lines crossing, take the line of another device with them |
| `clone_nameless` | `CloneOwns` | a vm.args without `-name` gets one line more in its clone, whose files are then set one line too far: it writes to the disks of its source |

A finding needs a run of its own, and three more disagreements are told by
properties that hold, each with the disagreement as its one exception, where its
mutant shows that the rest of it is not idle:

| Property | Its exception | Against |
|---|---|---|
| `SourceLeftAlone` | a VM whose start waits for access to USB devices can be cloned, and starts among the copies (vmcloner.cpp:132) | vmcloner.h:21, "The VM must be stopped" |
| `ShowsTheFile` | the pages stay on the old text if vm.args changes under changes that are taken back (vmpane.cpp:267) | the comment at vmpane.cpp:264 |
| `CloneSame` | a `-nic` line keeps its `mac=` (vmcloner.cpp:104) | vmcloner.h:20 |

## Proofs

TLC shows a property on one instance, TLAPS for every value of the constants. All
safety properties of the state machines with processes, sockets and folders are
proved, and those of a VM's files but for what depends on the lines it is made
with; of its arguments, the parts named below. A theorem assumes the named
assumptions on the constants (`ConstantsAssumption` and the like, which TLC
evaluates in every run) and the gates that its statement names, which are those
of the run that checks the same property.

| Module | Theorems | Property | Gates |
|---|---|---|---|
| `QmpClientProofs` | `TypeCorrect`, `CallbacksAccountedFor`, `HandshakeKept`, `RunInOrder`, `ImplementsLink` | `CalledOnce`, `Handshake`, `InOrder`, safety half of `KeepsContract` | |
| `VmRunnerProofs` | `TypeCorrect`, `PhasesFit`, `ImplementsLifecycle`, `Shows` | `PhaseFits`, `KeepsLifecycle`, `ShowsTheGuest` | `StartsClear` (all but `TypeCorrect`) |
| | `OneQemuKnown`, `CarefulSignals`, `NoneStranded`, `OverMeansGone` | `OneKnownQemu`, `SignalsWithCare`, `NoStrandedHelper`, `GoneWhenOver` | those of `runner_patient` (`Patient`) |
| `GuestMountsProofs` | `Truthful` | `TellsTruly` | |
| `VmSnapshotsProofs` | `NoneTwice`, `ListTrue`, `AllOrNone`, `AllTakenBack` | `NoDoubles`, `ListUpToDate`, `WholeSnapshots`, `RestoredTogether` | in the properties (`conditions`) |
| `QemuBuilderProofs` | `StampsTrue`, `BuiltRight`, `NothingDoneTwice` | `StampsTell`, `BuiltAsAsked`, `NothingTwice` | `ConfigureLeftAlone` (the last two) |
| `LibraryProofs` | `FoldersShown`, `ButtonsTrue`, `CausesTold`, `EditsAsked`, `SourceHeld`, `ClonesWhole` | `ShowsTheFolders`, `ButtonsFit`, `TellsWhy`, `NoLostEdits`, `SourceLeftAlone`, `WholeOrGone` | |
| `SettingsProofs` | `KnowsTheFileHolds`, `EditsTheVmUnlessTakenBack` | two of the three parts of `ShowsTheFile` | |
| `VmFilesProofs` | `ItemReadsBack`, `OtherItemsStay`, `LongReadsBack`, `NameReadsBack`, `QemuReadsBack` | lemmas behind `ReadsBack` and `OthersStay` | |
| | `StaysRegular`, `RunningIsWhole`, `DamageStaysTold`, `NothingIsLost` | `RunsWhole`, `DamageIsTold`, `NothingLost` | in the statement: how VMs are made |
| | `CloneIsItsOwn` | `CloneOwns` | in the statement: what is cloned (`Cloneable`) |

No property is inductive by itself but `PhaseFits` (given `StartsClear`),
`StampsTell`, `KnowsTheFile` and, for the steps that do not make a VM,
`DamageIsTold`. What the others need:

- **QmpClient.** `IInv`: a new id must be new, so the ids handed out lie below
  `nextId`, and while `failAll()` is under way no connection may be ready, else a
  command could be sent and failed. `HInv` adds the stages of a connection
  (silent, greeted, asked for capabilities, answered, negotiated), each with what
  may be on the wire, and that the ids in the queue, on the wire and run go up.
  `ImplementsLink` maps each handler to a step of `QmpLink` or a stutter.
- **VmRunner.** `ImplementsLifecycle` rests on `PhaseFits`: an end from `tick()`
  is an end from Starting or Stopping because of the phase. `Shows` needs who
  has the last word on a connection (`LastWord` in `InStep`): a `query-status`
  that is still on the wire, or else the last message that is unread, or else
  what is shown already; and the last one tells what the guest is. `RInv` has
  to say everything about the last run at once (`LastOnly`, `KnownQemu`,
  `TermFirst`, `HelpersWatched`): `cleanup()` may remove the files because no
  QEMU is left, none is left because the pid told that it ended, and the pid is
  right because the file it was read from was.
- **GuestMounts.** The port has no sessions, so what is in flight has to be
  ordered: connections are counted and nothing in flight is newer than the last
  one; behind what belongs to the connection nothing is older (`Ordered`); once
  in sync there is nothing else (`InSyncOnly`). Then a reply with the right
  number is about the right share (`Truth`).
- **VmSnapshots.** `ListFits`: what the user acts on is true of the disks. With
  it `JobFits`: what each step of an action has done and left to do of the name
  it works on. With that `JobWhole`: if nothing disturbs qemu-img, which disks
  have which take. The order in which qemu-img gets to the disks is not needed,
  but that a name stands for the first snapshot that has it is.
- **QemuBuilder.** `BInv`: the steps that are left are a tail of a plan
  (`Planned`), and what a step has written is as asked from then on
  (`SourcesThere`, `VirglThere`, `QemuThere`, `StampFits`). `NothingTwice` needs
  in addition that without their stamp the sources of virglrenderer are not those
  of any goal, and that what configure is asked for is not what it was configured
  for when it begins. For this `NoneAssumption` says that a stamp is never the
  absent one and half of a clone is no version of the sources.
- **Library.** `LInv`, in the order in which its parts lean on one another: the
  list and the watcher (`FoldersFit`), the window (`WinFits`), which VM a question
  is about (`DialogFits`), what was started and failed (`RunFits`), the clone
  under way (`CloneFits`), and which folders are whole (`WholeFits`, from which
  `WholeOrGone`). `SourceLeftAlone` and `NoLostEdits` are of steps: a clone under
  way means that its dialog is open (`CloneFits`), and in each action that starts
  or writes something, what its guard asks of the dialog.
- **VmConfig.** For any line, as a sequence of items over a set of words `W`, and
  any file, over a set of names `N`: what `OptionValue::set`, `setLong`, `setName`
  and `setQemuBinary` set is read back, also where a key is there twice, without
  a value, or implied, and `set` leaves the other keys. The getter and the setter
  search separately; that they find the same place is the argument, from the
  least element of a set of positions.
- **Settings.** `OldWhenTakenBack` goes through the steps: what loads the page
  loads the arguments of the `Vm`, and what leaves old arguments without changes
  began with changes over a text that is no longer that of the `Vm`.
- **VmFiles.** A VM is made by folds over the lines of templates, scripts and
  other VMs (`Makes`: `New`, `Import`, `Clone`), which are data: that such a step
  leaves flash lines with a file of their own each, and whole files as told, is a
  hypothesis (`[][Makes => Regular']_vars`), and TLC checks it in `vm_files`,
  where `Regular` is a conjunct of `DamageIsTold`. All else is proved for any
  arguments, templates and files: starts, repairs, resets with any steps failing,
  the guest, damage, removal and updates. `RunsWhole` needs that the templates
  are those there were, some of them newer (`SystemFits`), that what runs has
  all of its copies, and that an update of a template does not make a whole copy
  look damaged, whatever the roles (`WholeInv`). `FirmwareRepair::replace` folds
  over the damaged copies: if it were wrong there would be a smallest set of
  copies for which it is, and with one copy less it is right.
  In `DamageStaysTold` a copy that is put in place, converted or made again
  fits the template it comes from in size, format and head, which `ToldFormat`
  connects with the format on the line; one that the guest wrote, or formatted
  after it was erased, still does. `NothingIsLost` follows the steps of a reset:
  first a backup under a new name, then one thing less, then the copy; of a
  clone, that the copies have new places (`CloneKeepsAll`); of `New` and
  `Import`, that they write over no file is a hypothesis.
- **VmFiles, the clone.** `VmCloner::plan` is a fold over the files that the
  arguments name. The fold is described by its values after each file (`PlanIs`),
  and `PlanInv` says what holds after `m` files, of the whole arguments: the
  lines are still the same options; those that QEMU may open to write (`Opened`)
  name the same files or, of the first `m`, copies; the copies lie where no file
  of the source is; and the names taken are at most `m`, so one of nine numbers
  is free (`FreeNameIs`, a pigeonhole on finite sets). That a file set on one
  line leaves the other files of that line, and of the others, is the lemma on
  items above, for whichever of the keys (`PathSetIs`, `SetFile` in
  `PlansOne`). Then a line that QEMU opens to write is one `Writes` finds, and
  names a copy (`CloneApart`). The theorem is about what is `Cloneable`:
  arguments with a `-name` (without one it is false: `clone_nameless`), at most
  nine files (the bound of `FreeName`; the code counts on), a folder of the clone
  that is empty and that nobody names. `CloneSame` has it as its first conjunct,
  so TLC checks it of every clone of the run.

TLC checked each invariant on the instance of its run before it was proved. The
type invariants are proved and not checked by a run of their own.

What stays with TLC:

- Liveness, which these provers do not do: `EventuallyCalled` and the fairness of
  `KeepsContract`, `ForceOffEnds`, `EachBootIsTold`, `EveryJobEnds`.
- `ReadsBack`, `OthersStay` and `QemuTakesThem` of `Settings`, and `NewAsAsked`
  of `VmFiles`: pages and templates call dozens of setters, many of them folds
  over any number of lines.
- `CloneSame` of `VmFiles`: beyond what `CloneIsItsOwn` proves of the fold, it
  compares every line of the clone, and all of its items, with the source.
- `FilesThere` of `Settings`, for the same reason: it needs which names the
  setters of disks and firmware put into the arguments.
- `ShowsTheArguments`, a part of `ShowsTheFile` (a page loaded again has no changes). For
  other files than those of the run it fails: point 6 in "Settings".

## Not modelled

- `UpdateNotifier` and `UpdateCheck`: planned, see below.
- `PerfStats`, `GpuContexts`, `MemoryMonitor`: samples of `/proc`; a process that
  is replaced between two samples is the one case of interest.
- `QemuInfo`, `QemuDocs`, `DiskInfo`: the parsing of what tools print, for
  display.
- Widgets, icons, texts, layout, paths; the hints on the settings pages.
- Splitting of words in scripts and values (quotes, commas, line continuation),
  and the command line that `VmRunner` builds from the arguments.
- In `main.cpp`, the lock and the socket that raises the window.

## Plan

1. `UpdateCheck` and `UpdateNotifier`: checks that overlap, some repositories
   that fail, the interval that a failed check must not start.
2. `PerfStats` with `VmRunner::pid()`: no sample is of two processes.
3. The single instance: two managers started at once, one of which raises the
   other's window.
4. An abstract specification of snapshots (a VM, not its disks, has them), to
   which `VmSnapshots` maps when no action is under way; one of a library (a set
   of VMs) for `Library`.
5. Proofs: the setters of one line that `VmFilesProofs` does not have yet (memory,
   machine, accelerator), which rest on its lemmas on lines and items; that what
   a setter leaves alone reads as before also for another line (`OthersStay`,
   setter by setter); `ShowsTheArguments`, from an assumption on the
   order in which a page lists devices; `FilesThere`, whose argument is about
   names alone once the setters of disks are known to put in a name they are
   given; of `VmFiles`, the steps of `New` and `Import`, and that a clone has flash
   lines with files of its own (`Regular`), from `PlanInv`.

Runs stay few: a component gets one, and a property that needs a gate closed has
it closed there. A finding whose behaviour the code changes loses its run; the
gate it needed is then opened in the others.
