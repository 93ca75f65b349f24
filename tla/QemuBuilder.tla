------------------------------ MODULE QemuBuilder ------------------------------
(***************************************************************************)
(* QemuBuilder, src/core/qemubuilder.cpp, as the Build QEMU window uses    *)
(* it: the steps that download, configure and compile QEMU and, if asked,  *)
(* a virglrenderer of its own, and the stamps on disk that tell the next   *)
(* build which of them are done.  A build is stopped by the user or goes   *)
(* with the manager at any moment; the next one starts from what it left.  *)
(*                                                                         *)
(* The tools are external.  A step that runs works in two parts: what is   *)
(* half done shows as Half, or as what the tool replaces first, and a      *)
(* tool that is killed leaves it so.  A commit is known by its branch and  *)
(* number; the patches of virglrenderer by the QEMU branch that asks for   *)
(* them.  Their downloads, which fail as that of virglrenderer does, and   *)
(* the children that a killed shell leaves behind are left out.            *)
(***************************************************************************)
EXTENDS Naturals, Sequences

CONSTANTS
    Branches,           \* the branches of QEMU to choose from
    Args,               \* the configure options to choose from
    Takes,              \* the commits of virglrenderer and the patches they take
    MaxBuilds,          \* bound: builds that are started
    MaxNews,            \* bound: commits pushed to each branch, and to virglrenderer
    ConfigureLeftAlone, \* configure is not stopped, and changes nothing if it fails
    None, Half          \* no such thing on disk; half of it

ASSUME ConstantsAssumption ==
    /\ MaxBuilds \in Nat
    /\ MaxNews \in Nat
    /\ Takes \subseteq (0 .. MaxNews + 1) \X Branches
    /\ ConfigureLeftAlone \in BOOLEAN

VARIABLES
    upstream,       \* the newest commit of each branch of QEMU
    virglUpstream,  \* and of virglrenderer's main
    options,        \* m_options
    steps,          \* m_steps, the first one the one that runs
    process,        \* how far m_process got: "none", "runs", "half", "done"
    cancelled,      \* m_cancelled
    result,         \* history: of the last finished()
    builds,         \* history: builds that were started
    checkout,       \* the commit of the QEMU sources
    fetched,        \* FETCH_HEAD
    tree,           \* what build.ninja was configured for
    stamp,          \* kStamp
    binary,         \* what qemu-system was compiled from
    built,          \* qgm-built-commit and qgm-built-branch
    virglFetched,   \* origin/HEAD of the virglrenderer sources
    virglSrc,       \* their commit and patches
    patched,        \* ../patched
    virglTree,      \* whether it was set up for the patches' renderers
    virglOptions,   \* qgm-options
    installed       \* the virglrenderer in install/

askVars == <<upstream, virglUpstream>>
runVars == <<options, steps, process, cancelled, result, builds>>
qemuVars == <<checkout, fetched, tree, stamp, binary, built>>
virglVars == <<virglFetched, virglSrc, patched, virglTree, virglOptions, installed>>
vars == <<askVars, runVars, qemuVars, virglVars>>

Options == [branch : Branches, args : Args, virgl : BOOLEAN]
Commits == [branch : Branches, number : 0 .. MaxNews]
Sources == [commit : 0 .. MaxNews + 1, patches : Branches \cup {None}]
Stamps == [args : Args, virgl : Sources \cup {None}]      \* of configure
StepNames == {"clone", "fetch", "reset", "virgl download", "virgl patch", "virgl configure",
              "virgl compile", "configure", "compile"}

ASSUME NoneAssumption ==
    /\ None \notin Branches \cup Sources \cup Stamps
    /\ Half \notin Sources

Release == 0        \* the last release of virglrenderer; its main has commits from 1

Init ==
    /\ upstream = [b \in Branches |-> 0]
    /\ virglUpstream = 1
    /\ options \in Options
    /\ steps = <<>>
    /\ process = "none"
    /\ cancelled = FALSE
    /\ result = "none"
    /\ builds = 0
    /\ checkout = None /\ fetched = None
    /\ tree = None /\ stamp = None
    /\ binary = None /\ built = None
    /\ virglFetched = None
    /\ virglSrc = None /\ patched = None
    /\ virglTree = None /\ virglOptions = None
    /\ installed = None

isRunning == process # "none"
Step == Head(steps)
Runs(step) == isRunning /\ Step = step

-----------------------------------------------------------------------------
(* What the scripts and the stamps ask for.                                 *)

(* kApplyPatches: the first of main and the releases that is patched        *)
(* already or takes the patches p, or else main without them                *)
PatchGoal(p) ==
    LET Fits(commit) ==
            patched = [commit |-> commit, patches |-> p] \/ <<commit, p>> \in Takes
    IN IF Fits(virglFetched) THEN [commit |-> virglFetched, patches |-> p]
       ELSE IF Fits(Release) THEN [commit |-> Release, patches |-> p]
       ELSE [commit |-> virglFetched, patches |-> None]

Goal == PatchGoal(checkout.branch)      \* those of the manager and of the branch

Renderers(src) == src.patches # None    \* meson_options.txt after the patches

StampOfArgs == [args |-> options.args, virgl |-> None]      \* mutant: its patches do not count

ConfigureStamp ==
    [args |-> options.args, virgl |-> IF options.virgl THEN patched ELSE None]

Skip == tree # None /\ stamp = ConfigureStamp

-----------------------------------------------------------------------------
(* The steps of a build.                                                    *)

QemuSteps == IF checkout = None THEN <<"clone">> ELSE <<"fetch", "reset">>

VirglSteps(virgl) ==
    IF virgl THEN <<"virgl download", "virgl patch", "virgl configure", "virgl compile">>
    ELSE <<>>

Start(o) ==             \* build() of the window, start()
    /\ ~isRunning
    /\ builds < MaxBuilds
    /\ builds' = builds + 1
    /\ options' = o
    /\ cancelled' = FALSE
    /\ result' = "none"
    /\ steps' = QemuSteps \o VirglSteps(o.virgl) \o <<"configure", "compile">>
    /\ process' = "runs"
    /\ UNCHANGED <<askVars, qemuVars, virglVars>>

Cancel ==               \* SIGTERM, in 5 s SIGKILL
    /\ isRunning
    /\ ConfigureLeftAlone => Step # "configure"
    /\ cancelled' = TRUE
    /\ UNCHANGED <<askVars, options, steps, process, result, builds, qemuVars, virglVars>>

(* The destructor kills the process.  The manager comes back without steps. *)
ManagerQuits ==
    /\ ConfigureLeftAlone /\ isRunning => Step # "configure"
    /\ steps' = <<>>
    /\ process' = "none"
    /\ cancelled' = FALSE
    /\ result' = "none"
    /\ UNCHANGED <<askVars, options, builds, qemuVars, virglVars>>

Finished(r) == process' = "none" /\ result' = r

(* runNext(), after the first step                                          *)
RunNext ==
    LET rest == IF Len(steps) > 1 /\ steps[2] = "configure" /\ Skip THEN Tail(Tail(steps))
                ELSE Tail(steps)
    IN
    /\ steps' = rest
    /\ IF rest = <<>>
       THEN /\ built' = [commit |-> checkout, branch |-> options.branch]
            /\ Finished("ok")
       ELSE process' = "runs" /\ UNCHANGED <<built, result>>

Unstamped(code) ==      \* mutant: what was configured is not recorded
    \/ cancelled /\ Finished("cancelled") /\ UNCHANGED <<steps, stamp, built>>
    \/ ~cancelled /\ code # 0 /\ Finished("failed") /\ UNCHANGED <<steps, stamp, built>>
    \/ ~cancelled /\ code = 0 /\ RunNext /\ UNCHANGED stamp

(* QProcess::finished                                                       *)
Ended(code) ==
    \/ cancelled /\ Finished("cancelled") /\ UNCHANGED <<steps, stamp, built>>
    \/ ~cancelled /\ code # 0 /\ Finished("failed") /\ UNCHANGED <<steps, stamp, built>>
    \/ /\ ~cancelled /\ code = 0
       /\ RunNext
       /\ stamp' = IF Step = "configure" THEN ConfigureStamp ELSE stamp

-----------------------------------------------------------------------------
(* The tools.  Begins is the first half of the work of a step, Completes    *)
(* the second.                                                              *)

StampStays ==           \* mutant: the stamp is not removed before the checkout
    IF patched = Goal THEN UNCHANGED <<virglSrc, patched>>
    ELSE virglSrc' = Half /\ UNCHANGED patched

PatchBegins ==
    IF patched = Goal THEN UNCHANGED <<virglSrc, patched>>
    ELSE virglSrc' = Half /\ patched' = None

Begins ==
    \/ Runs("clone") /\ checkout' = Half
       /\ UNCHANGED <<fetched, tree, binary, virglVars>>
    \/ Runs("reset") /\ checkout' = Half
       /\ UNCHANGED <<fetched, tree, binary, virglVars>>
    \/ /\ \E step \in {"fetch", "virgl download"} : Runs(step)
       /\ UNCHANGED <<checkout, fetched, tree, binary, virglVars>>
    \/ /\ Runs("virgl patch") /\ PatchBegins
       /\ UNCHANGED <<checkout, fetched, tree, binary>>
       /\ UNCHANGED <<virglFetched, virglTree, virglOptions, installed>>
    \/ /\ Runs("virgl configure")
       /\ IF virglTree # None /\ virglOptions = Renderers(virglSrc)
          THEN UNCHANGED <<virglTree, virglOptions>>
          ELSE virglTree' = None /\ virglOptions' = None
       /\ UNCHANGED <<checkout, fetched, tree, binary>>
       /\ UNCHANGED <<virglFetched, virglSrc, patched, installed>>
    \/ /\ Runs("virgl compile") /\ installed' = Half
       /\ UNCHANGED <<checkout, fetched, tree, binary>>
       /\ UNCHANGED <<virglFetched, virglSrc, patched, virglTree, virglOptions>>
    \/ /\ Runs("configure")
       /\ tree' = [args |-> options.args, virgl |-> IF options.virgl THEN installed ELSE None]
       /\ UNCHANGED <<checkout, fetched, binary, virglVars>>
    \/ /\ Runs("compile")
       /\ binary' = [commit |-> checkout, tree |-> tree]
       /\ UNCHANGED <<checkout, fetched, tree, virglVars>>

(* When the stamp is gone the script knows its goal by Takes alone, but     *)
(* had it found the goal by the stamp, it would not have removed it.        *)
Completes ==
    \/ /\ Runs("clone")
       /\ checkout' = [branch |-> options.branch, number |-> upstream[options.branch]]
       /\ UNCHANGED <<fetched, virglVars>>
    \/ /\ Runs("fetch")
       /\ fetched' = [branch |-> options.branch, number |-> upstream[options.branch]]
       /\ UNCHANGED <<checkout, virglVars>>
    \/ /\ Runs("reset")
       /\ checkout' = fetched
       /\ UNCHANGED <<fetched, virglVars>>
    \/ /\ Runs("virgl download")
       /\ virglFetched' = virglUpstream
       /\ UNCHANGED <<checkout, fetched>>
       /\ UNCHANGED <<virglSrc, patched, virglTree, virglOptions, installed>>
    \/ /\ Runs("virgl patch")
       /\ virglSrc' = Goal /\ patched' = Goal
       /\ UNCHANGED <<checkout, fetched>>
       /\ UNCHANGED <<virglFetched, virglTree, virglOptions, installed>>
    \/ /\ Runs("virgl configure")
       /\ virglTree' = Renderers(virglSrc) /\ virglOptions' = Renderers(virglSrc)
       /\ UNCHANGED <<checkout, fetched>>
       /\ UNCHANGED <<virglFetched, virglSrc, patched, installed>>
    \/ /\ Runs("virgl compile") /\ installed' = virglSrc
       /\ UNCHANGED <<checkout, fetched>>
       /\ UNCHANGED <<virglFetched, virglSrc, patched, virglTree, virglOptions>>
    \/ /\ \E step \in {"configure", "compile"} : Runs(step)
       /\ UNCHANGED <<checkout, fetched, virglVars>>

ToolBegins ==
    /\ process = "runs"
    /\ process' = "half"
    /\ Begins
    /\ UNCHANGED <<askVars, options, steps, cancelled, result, builds, stamp, built>>

ToolCompletes ==
    /\ process = "half"
    /\ process' = "done"
    /\ Completes
    /\ UNCHANGED <<askVars, options, steps, cancelled, result, builds>>
    /\ UNCHANGED <<tree, stamp, binary, built>>

ToolSucceeds ==
    /\ process = "done"
    /\ Ended(0)
    /\ UNCHANGED <<askVars, options, cancelled, builds, virglVars>>
    /\ UNCHANGED <<checkout, fetched, tree, binary>>

(* By itself, or by the signals of cancel().  git removes what it cloned,   *)
(* unless it is killed.                                                     *)
ToolFails ==
    /\ process \in {"runs", "half"}
    /\ (ConfigureLeftAlone /\ Step = "configure") => process = "runs"
    /\ Ended(1)
    /\ \/ UNCHANGED checkout
       \/ Runs("clone") /\ checkout' = None
    /\ UNCHANGED <<askVars, options, cancelled, builds, virglVars>>
    /\ UNCHANGED <<fetched, tree, binary>>

-----------------------------------------------------------------------------
News(b) ==              \* a push to a branch of QEMU
    /\ upstream[b] < MaxNews
    /\ upstream' = [upstream EXCEPT ![b] = @ + 1]
    /\ UNCHANGED <<virglUpstream, runVars, qemuVars, virglVars>>

VirglNews ==
    /\ virglUpstream < MaxNews + 1
    /\ virglUpstream' = virglUpstream + 1
    /\ UNCHANGED <<upstream, runVars, qemuVars, virglVars>>

Next ==
    \/ \E o \in Options : Start(o)
    \/ Cancel \/ ManagerQuits
    \/ ToolBegins \/ ToolCompletes \/ ToolSucceeds \/ ToolFails
    \/ \E b \in Branches : News(b)
    \/ VirglNews

Spec == Init /\ [][Next]_vars

-----------------------------------------------------------------------------
(* Properties.                                                             *)

(* At any moment, also of a build that was stopped or killed there: what    *)
(* the stamps of virglrenderer say is so.  The scripts take them away       *)
(* before they touch what they stand for.                                   *)
StampsTell ==
    /\ patched # None => virglSrc = patched
    /\ virglOptions # None => virglTree = virglOptions

(* "The newest of main and the last releases that all the patches apply to; *)
(* if none takes them, main without them": by the end of a build.           *)
NewestThatTakesThem ==
    result = "ok" /\ options.virgl =>
        LET with == {c \in {virglFetched, Release} : <<c, options.branch>> \in Takes} IN
        IF with = {} THEN virglSrc = [commit |-> virglFetched, patches |-> None]
        ELSE /\ virglSrc.patches = options.branch
             /\ virglSrc.commit \in with
             /\ \A c \in with : c <= virglSrc.commit

(* A build that ended well, whatever was stopped, failed or pushed before:  *)
(* QEMU is of the checkout and configured with the options asked for,       *)
(* against the virglrenderer that is installed, which has its patches and   *)
(* renderers and is the one it should be; and the update check is told so.  *)
BuiltAsAsked ==
    result = "ok" =>
        /\ checkout.branch = options.branch
        /\ binary = [commit |-> checkout,
                     tree |-> [args |-> options.args,
                               virgl |-> IF options.virgl THEN installed ELSE None]]
        /\ built = [commit |-> checkout, branch |-> options.branch]
        /\ options.virgl => installed = virglSrc /\ virglTree = Renderers(virglSrc)
        /\ NewestThatTakesThem

(* A build leaves alone what an earlier one did: the sources that have the  *)
(* patches they should have are not rewritten, and QEMU is not configured   *)
(* for what it is configured for.                                           *)
NothingTwice ==
    [][ /\ virglSrc # Half /\ virglSrc' = Half => virglSrc # Goal
        /\ ToolBegins /\ Step = "configure" => tree' # tree ]_vars

================================================================================
