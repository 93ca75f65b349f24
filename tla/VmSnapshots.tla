------------------------------ MODULE VmSnapshots ------------------------------
(***************************************************************************)
(* VmSnapshots, src/core/snapshots.cpp, and the part of SnapshotView,      *)
(* src/ui/snapshotview.cpp, that owns one: the snapshots of a VM, each a   *)
(* copy of that name in every qcow2 file of the VM.  QEMU takes, restores  *)
(* and removes them while the VM runs, qemu-img disk by disk while it is   *)
(* stopped, and the VM starts and ends in the middle of either.            *)
(*                                                                         *)
(* The VM is seen as VmRunner shows it, Running and Paused as "Live".  A   *)
(* snapshot command of QEMU is all or nothing; one of qemu-img is about    *)
(* one disk, and fails while QEMU has the disks open (image locks).  That  *)
(* the VM has a disk to keep snapshots in, and qemu-img, is assumed: else  *)
(* cannot() and refresh() only report it.                                  *)
(***************************************************************************)
EXTENDS Naturals, Sequences

SeqExt == INSTANCE SequencesExt

CONSTANTS
    Names,          \* names of snapshots
    MaxStarts,      \* bound: starts of the VM
    Conditions      \* under which the VM may be used, each a record:
                    \*   disks       how many qcow2 files the VM writes to
                    \*   takes       bound: snapshots that are begun
                    \*   breaks      the commands of qemu-img that may fail by themselves
                    \*   startsIdle  the VM is started with no action of qemu-img under way
                    \*   actsListed  the user acts on a list that is up to date
                    \*   reselects   another VM may be shown, and this one again

ASSUME ConstantsAssumption ==
    /\ MaxStarts \in Nat
    /\ \A c \in Conditions :
        /\ c.disks \in Nat \ {0}
        /\ c.takes \in Nat
        /\ c.breaks \subseteq {"-c", "-d", "-a", "info"}
        /\ {c.startsIdle, c.actsListed, c.reselects} \subseteq BOOLEAN

VARIABLES
    conditions, \* of this behaviour: what the rest of the world does is known by them
    state,      \* VmRunner::state()
    qmp,        \* its connection; "failing" while failAll() calls callbacks
    opened,     \* QEMU has the disks open
    starts,     \* history: starts of the VM
    disks,      \* the snapshots in each disk, oldest first
    point,      \* history: the take each disk was last taken back to, 0 for none
    takes,      \* history: the number of the last take
    visible,    \* SnapshotView is shown
    job,        \* the action under way of each VmSnapshots
    list,       \* d->snapshots: by name, the files and whether with running state
    listOk,     \* listed() came without an error
    flight,     \* listings that were asked for and not answered
    restored    \* history: the last restore() succeeded

vmVars == <<conditions, state, qmp, opened, starts>>
diskVars == <<disks, point>>
listVars == <<list, listOk, flight>>
vars == <<vmVars, diskVars, takes, visible, job, listVars, restored>>

Disks == 1 .. conditions.disks      \* in their order
States == {"Stopped", "Starting", "Live", "Stopping"}

(* The VmSnapshots that SnapshotView shows, and the busy one it left with   *)
(* the VM, which is deleted when its action is finished().                  *)
Objects == {"shown", "left"}

QemuSteps == {"savevm", "query-block", "replace", "transaction", "loadvm", "delvm"}
ImgSteps == {"removals", "creations", "undo", "apply", "deletions"}

(* What qemu-img does with each disk in a step                              *)
Op == [removals |-> "-d", creations |-> "-c", undo |-> "-d", apply |-> "-a", deletions |-> "-d"]

(* An action: what it waits for, the disks qemu-img has yet to get to       *)
(* (runAll), the first error, and on QMP whether the command still waits to *)
(* be sent and QEMU's reply on its way.                                     *)
Idle == [step |-> "none", name |-> "", take |-> 0, todo |-> {}, failed |-> FALSE,
         queued |-> FALSE, reply |-> "none"]
ReplyKinds == {"none", "ok", "error", "disksOnly"}

NoSnapshots == [n \in Names |-> [files |-> {}, vmstate |-> FALSE]]

Has(copies, n) == \E i \in DOMAIN copies : copies[i].name = n
WithState(copies, n) == \E i \in DOMAIN copies : copies[i].name = n /\ copies[i].vmstate

LastOnly(n, images) ==      \* mutant: the file of an image replaces that of the one before
    LET with == {d \in DOMAIN images : Has(images[d], n)} IN
    [files |-> {d \in with : \A e \in with : e <= d},
     vmstate |-> \E d \in with : WithState(images[d], n)]

Entry(n, images) ==         \* what images, in the order of the disks, have of the name n
    LET with == {d \in DOMAIN images : Has(images[d], n)} IN
    [files |-> with, vmstate |-> \E d \in with : WithState(images[d], n)]

Merged(images) == [n \in Names |-> Entry(n, images)]       \* merge()

Init ==
    /\ conditions \in Conditions
    /\ state = "Stopped"
    /\ qmp = "none"
    /\ opened \in BOOLEAN       \* a manager that starts may attach to a QEMU that runs
    /\ starts = 0
    /\ disks = [d \in Disks |-> <<>>]
    /\ point = [d \in Disks |-> 0]
    /\ takes = 0
    /\ visible = FALSE
    /\ job = [o \in Objects |-> Idle]
    /\ list = NoSnapshots
    /\ listOk = FALSE
    /\ flight = {}
    /\ restored = FALSE

Settled == qmp # "failing"      \* no handler is in the middle of its callbacks
Busy(o) == job[o] # Idle
Awaits(o, step) == job[o].step = step

-----------------------------------------------------------------------------
(* refresh(), in the state and with the connection a step leads to          *)

(* A listing: whether it is the newest (its generation), whether query-     *)
(* block waits to be sent, the command it was sent behind, which QEMU       *)
(* serves first, and the images qemu-img info has told of.                  *)
LeftCommand == IF job'["left"].step \in QemuSteps THEN job'["left"].step ELSE "none"

QueryBlock ==
    [kind |-> "query-block", current |-> TRUE, queued |-> qmp' # "up", behind |-> LeftCommand,
     images |-> <<>>]
Info ==
    [kind |-> "info", current |-> TRUE, queued |-> FALSE, behind |-> "none", images |-> <<>>]

Superseded == {[l EXCEPT !.current = FALSE] : l \in flight}

(* A listing asked for on top of what is in flight, and known until then    *)
Refreshed(stale, known, ok) ==
    \/ state' = "Live" /\ flight' = stale \cup {QueryBlock} /\ list' = known /\ listOk' = ok
    \/ state' = "Stopped" /\ flight' = stale \cup {Info} /\ list' = known /\ listOk' = ok
    \/ /\ state' \in {"Starting", "Stopping"}       \* QEMU has the files
       /\ flight' = stale
       /\ list' = NoSnapshots
       /\ listOk' = TRUE

Refresh == Refreshed(Superseded, list, listOk)

StateChanged == IF visible THEN Refresh ELSE UNCHANGED listVars

AnyGeneration(l) == TRUE        \* mutant: an old answer is taken for a new one

Wanted(l) == l.current          \* generation == d->generation

Listed(l, new, ok) ==           \* listed(); an old answer is dropped
    /\ flight' = flight \ {l}
    /\ list' = IF Wanted(l) THEN new ELSE list
    /\ listOk' = IF Wanted(l) THEN ok ELSE listOk

QueryBlockAnswered(l) ==
    /\ qmp = "up"
    /\ l.kind = "query-block" /\ ~l.queued
    /\ l.behind # "none" => ~Awaits("left", l.behind)
    /\ Listed(l, Merged(disks), TRUE)
    /\ UNCHANGED <<vmVars, diskVars, takes, visible, job, restored>>

InfoTold(l) ==              \* info(), of one disk
    /\ Settled
    /\ l.kind = "info"
    /\ LET images == Append(l.images, disks[Len(l.images) + 1]) IN
       \/ "info" \in conditions.breaks /\ Listed(l, NoSnapshots, FALSE)
       \/ (~Wanted(l) \/ Len(images) = conditions.disks) /\ Listed(l, Merged(images), TRUE)
       \/ /\ Wanted(l) /\ Len(images) < conditions.disks
          /\ flight' = (flight \ {l}) \cup {[l EXCEPT !.images = images]}
          /\ UNCHANGED <<list, listOk>>
    /\ UNCHANGED <<vmVars, diskVars, takes, visible, job, restored>>

-----------------------------------------------------------------------------
(* take(), restore(), remove(): what the user asks for.                     *)

MayAct ==                   \* cannot(), and buttons to click on
    /\ Settled
    /\ visible
    /\ ~Busy("shown")
    /\ state \in {"Live", "Stopped"}
    /\ conditions.actsListed => listOk /\ \A l \in flight : ~l.current

Begins(action) ==
    /\ MayAct
    /\ job' = [job EXCEPT !["shown"] = action]
    /\ UNCHANGED <<vmVars, diskVars, visible, listVars>>

Execute(step, n, t) ==      \* a command over QMP: queued if it is not ready
    [Idle EXCEPT !.step = step, !.name = n, !.take = t, !.queued = qmp # "up"]

Run(step, n, t, todo) ==    \* runAll()
    [Idle EXCEPT !.step = step, !.name = n, !.take = t, !.todo = todo]

NoRemovals(n) == {}         \* mutant: the old one of the name stays

Removals(n) == list[n].files

RunTake(n, t) ==            \* runAll() of no commands is done at once
    IF Removals(n) = {} THEN Run("creations", n, t, Disks)
    ELSE Run("removals", n, t, Removals(n))

Take(n) ==
    /\ takes < conditions.takes
    /\ takes' = takes + 1
    /\ Begins(IF state = "Live" THEN Execute("savevm", n, takes') ELSE RunTake(n, takes'))
    /\ UNCHANGED restored

Restore(n) ==               \* a running VM goes back to a running state only
    /\ list[n].files # {}
    /\ state = "Live" => list[n].vmstate
    /\ Begins(IF state = "Live" THEN Execute("loadvm", n, 0)
              ELSE Run("apply", n, 0, list[n].files))
    /\ restored' = FALSE
    /\ UNCHANGED takes

Remove(n) ==
    /\ list[n].files # {}
    /\ Begins(IF state = "Live" THEN Execute("delvm", n, 0)
              ELSE Run("deletions", n, 0, list[n].files))
    /\ UNCHANGED <<takes, restored>>

(* end(); the one that was left is deleted, its listing with it             *)
Finish(o, failed) ==
    /\ job' = [job EXCEPT ![o] = Idle]
    /\ restored' = (restored \/ (~failed /\ job[o].step \in {"loadvm", "apply"}))
    /\ IF o = "shown" THEN Refresh ELSE UNCHANGED listVars

GoesOn(o, next) ==
    /\ job' = [job EXCEPT ![o] = next]
    /\ UNCHANGED <<listVars, restored>>

-----------------------------------------------------------------------------
(* The commands of QEMU.                                                    *)

FirstNamed(d, n) ==
    CHOOSE i \in DOMAIN disks[d] :
        /\ disks[d][i].name = n
        /\ \A j \in 1 .. i - 1 : disks[d][j].name # n

(* A name stands for the first snapshot that has it.                        *)
Without(d, n) ==
    IF Has(disks[d], n) THEN SeqExt!RemoveAt(disks[d], FirstNamed(d, n)) ELSE disks[d]

Copy(o, withState) == [name |-> job[o].name, take |-> job[o].take, vmstate |-> withState]

Replies(o, reply) == job' = [job EXCEPT ![o].reply = reply]

(* savevm replaces; QEMU keeps the running state in the first disk.  It may *)
(* fail, for the running state only or not.                                 *)
QemuSaves(o) ==
    /\ Awaits(o, "savevm")
    /\ \/ /\ disks' = [d \in Disks |-> Append(Without(d, job[o].name), Copy(o, d = 1))]
          /\ Replies(o, "ok")
       \/ /\ disks' = [d \in Disks |-> Without(d, job[o].name)]
          /\ Replies(o, "error")
       \/ /\ UNCHANGED disks
          /\ \E r \in {"error", "disksOnly"} : Replies(o, r)
    /\ UNCHANGED point

QemuTellsBlocks(o) ==
    /\ Awaits(o, "query-block")
    /\ Replies(o, "ok")
    /\ UNCHANGED diskVars

QemuDeletes(o) ==
    /\ Awaits(o, "replace") \/ Awaits(o, "delvm")
    /\ \/ /\ disks' = [d \in Disks |-> Without(d, job[o].name)]
          /\ Replies(o, "ok")
       \/ /\ UNCHANGED disks
          /\ Replies(o, "error")
    /\ UNCHANGED point

QemuTransacts(o) ==         \* blockdev-snapshot-internal-sync refuses a name it has
    /\ Awaits(o, "transaction")
    /\ \/ /\ \A d \in Disks : ~Has(disks[d], job[o].name)
          /\ disks' = [d \in Disks |-> Append(disks[d], Copy(o, FALSE))]
          /\ Replies(o, "ok")
       \/ /\ UNCHANGED disks
          /\ Replies(o, "error")
    /\ UNCHANGED point

QemuLoads(o) ==
    LET n == job[o].name IN
    /\ Awaits(o, "loadvm")
    /\ \/ /\ \A d \in Disks : Has(disks[d], n)
          /\ point' = [d \in Disks |-> disks[d][FirstNamed(d, n)].take]
          /\ Replies(o, "ok")
       \/ /\ UNCHANGED point
          /\ Replies(o, "error")
    /\ UNCHANGED disks

QemuServes(o) ==
    /\ qmp = "up"
    /\ job[o].reply = "none" /\ ~job[o].queued
    /\ QemuSaves(o) \/ QemuTellsBlocks(o) \/ QemuDeletes(o) \/ QemuTransacts(o) \/ QemuLoads(o)
    /\ UNCHANGED <<vmVars, takes, visible, listVars, restored>>

LeaveDisks(o) ==            \* mutant: returns without end()
    GoesOn(o, Execute("none", job[o].name, job[o].take))

EndDisks(o) == Finish(o, TRUE)      \* takeDisks() with the VM no longer live

(* The callback of the command: reply is "error" when the connection closed *)
Answered(o, reply) ==
    LET Then(step) == GoesOn(o, Execute(step, job[o].name, job[o].take)) IN
    \/ Awaits(o, "savevm") /\ reply = "disksOnly" /\ Then("query-block")
    \/ Awaits(o, "savevm") /\ reply # "disksOnly" /\ Finish(o, reply = "error")
    \/ Awaits(o, "query-block") /\ reply = "ok" /\ state = "Live" /\ Then("replace")
    \/ Awaits(o, "query-block") /\ (reply = "error" \/ state # "Live") /\ EndDisks(o)
    \/ Awaits(o, "replace") /\ state = "Live" /\ Then("transaction")
    \/ Awaits(o, "replace") /\ state # "Live" /\ EndDisks(o)
    \/ /\ \E step \in {"transaction", "loadvm", "delvm"} : Awaits(o, step)
       /\ Finish(o, reply = "error")

QmpAnswers(o) ==
    /\ qmp = "up"
    /\ job[o].reply # "none"
    /\ UNCHANGED <<vmVars, diskVars, takes, visible>>
    /\ Answered(o, job[o].reply)

-----------------------------------------------------------------------------
(* The commands of qemu-img.                                                *)

RanNoUndo(o, failed) ==     \* mutant: what was created stays
    \/ /\ Awaits(o, "removals") /\ ~failed
       /\ GoesOn(o, Run("creations", job[o].name, job[o].take, Disks))
    \/ (failed \/ ~Awaits(o, "removals")) /\ Finish(o, failed)

Ran(o, failed) ==           \* @done of runAll()
    LET n == job[o].name
        t == job[o].take
    IN
    \/ Awaits(o, "removals") /\ ~failed /\ GoesOn(o, Run("creations", n, t, Disks))
    \/ Awaits(o, "removals") /\ failed /\ Finish(o, TRUE)
    \/ Awaits(o, "creations") /\ ~failed /\ Finish(o, FALSE)
    \/ /\ Awaits(o, "creations") /\ failed      \* none, rather than some of the disks
       /\ GoesOn(o, [Run("undo", n, t, Disks) EXCEPT !.failed = TRUE])
    \/ /\ \E step \in {"undo", "apply", "deletions"} : Awaits(o, step)
       /\ Finish(o, failed)

Done(o, d, failed) ==       \* runAll(): up to an error, but for "undo"
    IF job[o].todo = {d} \/ (failed /\ ~Awaits(o, "undo"))
    THEN Ran(o, failed \/ job[o].failed)
    ELSE GoesOn(o, [job[o] EXCEPT !.todo = @ \ {d}, !.failed = failed \/ @])

ImgWorks(o, d) ==
    /\ ~opened
    /\ Op[job[o].step] # "-c" => Has(disks[d], job[o].name)

ImgDoes(o, d) ==
    LET op == Op[job[o].step]
        n  == job[o].name
    IN
    \/ /\ op = "-c"
       /\ disks' = [disks EXCEPT ![d] = Append(@, Copy(o, FALSE))]
       /\ UNCHANGED point
    \/ /\ op = "-d"
       /\ disks' = [disks EXCEPT ![d] = Without(d, n)]
       /\ UNCHANGED point
    \/ /\ op = "-a"
       /\ point' = [point EXCEPT ![d] = disks[d][FirstNamed(d, n)].take]
       /\ UNCHANGED disks

ImgEnds(o) ==               \* with the next disk
    /\ Settled
    /\ job[o].step \in ImgSteps
    /\ UNCHANGED <<vmVars, takes, visible>>
    /\ \E d \in job[o].todo :
       /\ \A other \in job[o].todo : d <= other
       /\ \/ ImgWorks(o, d) /\ ImgDoes(o, d) /\ Done(o, d, FALSE)
          \/ /\ ~ImgWorks(o, d) \/ Op[job[o].step] \in conditions.breaks
             /\ UNCHANGED diskVars
             /\ Done(o, d, TRUE)

-----------------------------------------------------------------------------
(* The VM, of which the view hears by stateChanged().                       *)

VmStarts ==                 \* nothing in the code waits for qemu-img
    /\ Settled
    /\ state = "Stopped" /\ ~opened
    /\ starts < MaxStarts
    /\ conditions.startsIdle => \A o \in Objects : ~Busy(o)
    /\ starts' = starts + 1
    /\ state' = "Starting"
    /\ UNCHANGED <<qmp, opened>>
    /\ UNCHANGED <<conditions, diskVars, takes, visible, job, restored>>
    /\ StateChanged

QemuOpens ==
    /\ state = "Starting" /\ ~opened
    /\ opened' = TRUE
    /\ UNCHANGED <<conditions, state, qmp, starts, diskVars, takes, visible, job, listVars, restored>>

QemuFails ==                \* while it starts, or before attach() had its answer
    /\ state = "Starting" \/ (state = "Stopped" /\ opened)
    /\ state' = "Stopped"
    /\ opened' = FALSE
    /\ UNCHANGED <<qmp, starts>>
    /\ UNCHANGED <<conditions, diskVars, takes, visible, job, restored>>
    /\ IF state # "Stopped" THEN StateChanged ELSE UNCHANGED listVars

QemuRuns ==                 \* start() or attach() got the answer to query-status
    /\ state \in {"Starting", "Stopped"} /\ opened
    /\ state' = "Live"
    /\ qmp' = "up"
    /\ UNCHANGED <<opened, starts>>
    /\ UNCHANGED <<conditions, diskVars, takes, visible, job, restored>>
    /\ StateChanged

QemuShutsDown ==            \* SHUTDOWN, or quit: QMP answers for a while
    /\ state = "Live" /\ Settled
    /\ state' = "Stopping"
    /\ UNCHANGED <<qmp, opened, starts>>
    /\ UNCHANGED <<conditions, diskVars, takes, visible, job, restored>>
    /\ StateChanged

QmpCloses ==                \* failAll() begins, the state not yet told of it
    /\ qmp = "up"
    /\ qmp' = "failing"
    /\ UNCHANGED <<conditions, state, opened, starts, diskVars, takes, visible, job, listVars, restored>>

(* What failAll() calls: the commands sent when the connection closes, and  *)
(* those queued since when cleanup() drops it.                              *)
Fails(x) == IF x.queued THEN qmp = "lost" ELSE qmp = "failing"

FailingJobs == {o \in Objects : job[o].step \in QemuSteps /\ Fails(job[o])}
FailingLists == {l \in flight : l.kind = "query-block" /\ Fails(l)}

JobFails(o) ==
    /\ o \in FailingJobs
    /\ UNCHANGED <<vmVars, diskVars, takes, visible>>
    /\ Answered(o, "error")

ListingFails(l) ==
    /\ l \in FailingLists
    /\ Listed(l, NoSnapshots, FALSE)
    /\ UNCHANGED <<vmVars, diskVars, takes, visible, job, restored>>

QmpClosed ==                \* disconnected()
    /\ qmp = "failing"
    /\ FailingJobs = {} /\ FailingLists = {}
    /\ qmp' = "lost"
    /\ state' = "Stopping"
    /\ UNCHANGED <<opened, starts>>
    /\ UNCHANGED <<conditions, diskVars, takes, visible, job, restored>>
    /\ IF state # "Stopping" THEN StateChanged ELSE UNCHANGED listVars

VmStops ==                  \* cleanup() failed what was queued, then Stopped
    /\ qmp = "lost"
    /\ FailingJobs = {} /\ FailingLists = {}
    /\ qmp' = "none"
    /\ state' = "Stopped"
    /\ opened' = FALSE
    /\ UNCHANGED starts
    /\ UNCHANGED <<conditions, diskVars, takes, visible, job, restored>>
    /\ StateChanged

-----------------------------------------------------------------------------
(* SnapshotView.                                                            *)

Show ==                     \* showEvent()
    /\ Settled
    /\ ~visible
    /\ visible' = TRUE
    /\ UNCHANGED <<vmVars, diskVars, takes, job, restored>>
    /\ IF Busy("shown") THEN UNCHANGED listVars ELSE Refresh

Hide ==
    /\ Settled
    /\ visible
    /\ visible' = FALSE
    /\ UNCHANGED <<vmVars, diskVars, takes, job, listVars, restored>>

(* setVm() to another VM and back to this one: a busy VmSnapshots goes on   *)
(* alone, and a new one takes its place.                                    *)
Reselect ==
    /\ conditions.reselects
    /\ Settled
    /\ Busy("shown") => ~Busy("left")       \* bound: one left at a time
    /\ job' = IF Busy("shown") THEN [job EXCEPT !["left"] = job["shown"], !["shown"] = Idle]
              ELSE job
    /\ UNCHANGED <<vmVars, diskVars, takes, visible, restored>>
    /\ \/ visible /\ Refreshed({}, NoSnapshots, FALSE)
       \/ /\ ~visible
          /\ flight' = {}
          /\ list' = NoSnapshots
          /\ listOk' = FALSE

-----------------------------------------------------------------------------
UserNext ==
    \/ \E n \in Names : Take(n) \/ Restore(n) \/ Remove(n)
    \/ VmStarts \/ Show \/ Hide \/ Reselect

QemuNext ==
    \/ QemuOpens \/ QemuFails \/ QemuRuns \/ QemuShutsDown \/ QmpCloses
    \/ \E o \in Objects : QemuServes(o)

HandlerNext ==
    \/ \E o \in Objects : ImgEnds(o) \/ QmpAnswers(o) \/ JobFails(o)
    \/ \E l \in flight : QueryBlockAnswered(l) \/ InfoTold(l) \/ ListingFails(l)
    \/ QmpClosed \/ VmStops

Next == UserNext \/ QemuNext \/ HandlerNext

Spec == Init /\ [][Next]_vars

(* qemu-img ends, QEMU serves what it is sent, and the event loop goes on;  *)
(* nothing is fair about the user, nor about the VM starting and ending.    *)
Fairness ==
    /\ \A o \in Objects :
        WF_vars(ImgEnds(o)) /\ WF_vars(QemuServes(o)) /\ WF_vars(QmpAnswers(o))
        /\ WF_vars(JobFails(o))
    /\ WF_vars(\E l \in flight : ListingFails(l))
    /\ WF_vars(QmpClosed)
    /\ WF_vars(VmStops)

FairSpec == Spec /\ Fairness

-----------------------------------------------------------------------------
(* Properties.                                                             *)

Holders(t) == {d \in Disks : \E i \in DOMAIN disks[d] : disks[d][i].take = t}

(* The user acts on a list that is up to date, in one view.                 *)
KnowsTheList == conditions.actsListed /\ ~conditions.reselects

(* And nothing takes a disk from qemu-img, which removes what it should.    *)
Undisturbed == KnowsTheList /\ conditions.startsIdle /\ "-d" \notin conditions.breaks

(* "None, rather than some of the disks": with no action under way, what a  *)
(* take() made is in all the disks or in none, however that take() ended    *)
(* and whatever was taken, restored or removed since.  The undoing of       *)
(* take() and the order of its removals and creations are what keeps it,    *)
(* as long as they are undisturbed.                                         *)
WholeSnapshots ==
    Undisturbed /\ (\A o \in Objects : ~Busy(o))
        => \A t \in 1 .. takes : Holders(t) \in {{}, Disks}

(* A restore() that succeeded left all the disks at the same take.          *)
RestoredTogether ==
    Undisturbed /\ restored => \A d, e \in Disks : point[d] = point[e]

(* A take() replaces the snapshot of its name, with QEMU and with qemu-img, *)
(* which does not: no disk ever has two of one name, whatever failed and    *)
(* whenever the VM was started.                                             *)
NoDoubles ==
    KnowsTheList =>
        \A d \in Disks : \A i, j \in DOMAIN disks[d] :
            disks[d][i].name = disks[d][j].name => i = j

(* With no action under way and no listing on its way, a list that is shown *)
(* and came without an error is that of the disks, and empty while QEMU     *)
(* starts or ends: no answer to an older refresh() overwrote it, and no     *)
(* action, start or end of the VM went by without one.                      *)
ListUpToDate ==
    (/\ KnowsTheList
     /\ visible /\ listOk /\ Settled
     /\ \A o \in Objects : ~Busy(o)
     /\ \A l \in flight : ~l.current)
        => list = IF state \in {"Live", "Stopped"} THEN Merged(disks) ELSE NoSnapshots

(* Every action is finished(), though the VM starts, ends or loses its      *)
(* connection in the middle: the buttons are not disabled for good.         *)
EveryJobEnds == \A o \in Objects : Busy(o) ~> ~Busy(o)

================================================================================
