--------------------------- MODULE QemuBuilderProofs ---------------------------
(***************************************************************************)
(* Proofs about QemuBuilder, for any branches, options, patches and number *)
(* of builds.  What the stamps of virglrenderer say is so at every moment: *)
(* that invariant is inductive as it stands, as only the scripts write     *)
(* what the stamps stand for and each removes its stamp with its first     *)
(* write.  That a build which ended well built what was asked for needs    *)
(* what each step finds of those before it, BInv below.                    *)
(***************************************************************************)
EXTENDS QemuBuilder, Integers, SequenceTheorems, TLAPS

(* Every action but the two halves of a step leaves virglrenderer alone.    *)
LEMMA VirglUntouched ==
    ASSUME StampsTell, UNCHANGED virglVars
    PROVE  StampsTell'
BY DEF StampsTell, virglVars

(* The first half: a stamp is gone, or nothing is written.                  *)
LEMMA StampsTakenAway ==
    ASSUME StampsTell, Begins
    PROVE  StampsTell'
<1>1. CASE UNCHANGED virglVars
    BY <1>1, VirglUntouched
<1>2. CASE /\ PatchBegins
           /\ UNCHANGED <<virglFetched, virglTree, virglOptions, installed>>
    BY <1>2 DEF StampsTell, PatchBegins
<1>3. CASE /\ IF virglTree # None /\ virglOptions = Renderers(virglSrc)
              THEN UNCHANGED <<virglTree, virglOptions>>
              ELSE virglTree' = None /\ virglOptions' = None
           /\ UNCHANGED <<virglFetched, virglSrc, patched, installed>>
    BY <1>3 DEF StampsTell
<1>4. CASE UNCHANGED <<virglFetched, virglSrc, patched, virglTree, virglOptions>>
    BY <1>4 DEF StampsTell
<1> QED
    BY <1>1, <1>2, <1>3, <1>4 DEF Begins

(* The second half writes a stamp with what it stands for.                  *)
LEMMA StampsWritten ==
    ASSUME StampsTell, Completes
    PROVE  StampsTell'
<1>1. CASE UNCHANGED virglVars
    BY <1>1, VirglUntouched
<1>2. CASE UNCHANGED <<virglSrc, patched, virglTree, virglOptions>>
    BY <1>2 DEF StampsTell
<1>3. CASE /\ virglSrc' = Goal /\ patched' = Goal
           /\ UNCHANGED <<virglTree, virglOptions>>
    BY <1>3 DEF StampsTell
<1>4. CASE /\ virglTree' = Renderers(virglSrc) /\ virglOptions' = Renderers(virglSrc)
           /\ UNCHANGED <<virglSrc, patched>>
    BY <1>4 DEF StampsTell
<1> QED
    BY <1>1, <1>2, <1>3, <1>4 DEF Completes

(* At any moment, also of a build that was stopped or killed there, the     *)
(* stamps tell what the sources and the build folder of virglrenderer are.  *)
THEOREM StampsTrue == Spec => []StampsTell
<1>1. Init => StampsTell
    BY DEF Init, StampsTell
<1>2. StampsTell /\ [Next]_vars => StampsTell'
    <2> SUFFICES ASSUME StampsTell, [Next]_vars
                 PROVE  StampsTell'
        OBVIOUS
    <2>1. CASE ToolBegins
        BY <2>1, StampsTakenAway DEF ToolBegins
    <2>2. CASE ToolCompletes
        BY <2>2, StampsWritten DEF ToolCompletes
    <2>3. CASE \E o \in Options : Start(o)
        BY <2>3, VirglUntouched DEF Start
    <2>4. CASE Cancel \/ ManagerQuits
        BY <2>4, VirglUntouched DEF Cancel, ManagerQuits
    <2>5. CASE ToolSucceeds \/ ToolFails
        BY <2>5, VirglUntouched DEF ToolSucceeds, ToolFails
    <2>6. CASE (\E b \in Branches : News(b)) \/ VirglNews
        BY <2>6, VirglUntouched DEF News, VirglNews
    <2>7. CASE UNCHANGED vars
        BY <2>7, VirglUntouched DEF vars
    <2> QED
        BY <2>1, <2>2, <2>3, <2>4, <2>5, <2>6, <2>7 DEF Next
<1> QED
    BY <1>1, <1>2, PTL DEF Spec

-----------------------------------------------------------------------------
(* The argument for BuiltAsAsked: a build goes through its steps in their   *)
(* order, each finds what those before it left, and a step that is not      *)
(* among those of a build was not needed, because its stamp tells what the  *)
(* disk holds.                                                              *)

(* The step that comes after another.                                       *)
After(virgl, step) ==
    CASE step = "fetch" -> "reset"
      [] step \in {"clone", "reset"} -> IF virgl THEN "virgl download" ELSE "configure"
      [] step = "virgl download" -> "virgl patch"
      [] step = "virgl patch" -> "virgl configure"
      [] step = "virgl configure" -> "virgl compile"
      [] step = "virgl compile" -> "configure"
      [] OTHER -> "compile"

Planned(virgl, s) ==
    /\ s \in Seq(StepNames)
    /\ Len(s) > 0
    /\ \A i \in 1 .. Len(s) : (s[i] = "compile") <=> (i = Len(s))
    /\ \A i \in 1 .. Len(s) - 1 : s[i + 1] = After(virgl, s[i])

(* A step is behind the build, or one of those that come after it runs.     *)
VirglParts == {"virgl download", "virgl patch", "virgl configure", "virgl compile"}
Past(step, later) == isRunning /\ (Step \in later \/ (Step = step /\ process = "done"))
Written(step, later) == isRunning /\ (Step \in later \/ (Step = step /\ process \in {"half", "done"}))

(* The patches that a stamp tells of were taken.                            *)
StampTaken ==
    patched # None => patched.patches = None \/ <<patched.commit, patched.patches>> \in Takes

NewestFor(branch) ==
    LET with == {c \in {virglFetched, Release} : <<c, branch>> \in Takes} IN
    IF with = {} THEN virglSrc = [commit |-> virglFetched, patches |-> None]
    ELSE /\ virglSrc.patches = branch
         /\ virglSrc.commit \in with
         /\ \A c \in with : c <= virglSrc.commit

Configured == [args |-> options.args, virgl |-> IF options.virgl THEN installed ELSE None]

(* What the steps behind a build have left.                                 *)
SourcesThere ==
    /\ Past("fetch", {"reset"}) => fetched.branch = options.branch
    /\ Past("clone", VirglParts \cup {"configure", "compile"}) \/ Past("reset", {}) =>
        checkout.branch = options.branch

VirglThere ==
    options.virgl =>
        /\ Past("virgl download", {"virgl patch", "virgl configure", "virgl compile", "configure", "compile"}) =>
            virglFetched \in 0 .. MaxNews + 1
        /\ Past("virgl patch", {"virgl configure", "virgl compile", "configure", "compile"}) =>
            patched = virglSrc /\ NewestFor(options.branch)
        /\ Past("virgl configure", {"virgl compile", "configure", "compile"}) =>
            virglTree = Renderers(virglSrc)
        /\ Past("virgl compile", {"configure", "compile"}) =>
            installed = virglSrc

QemuThere ==
    /\ Written("configure", {"compile"}) => tree = Configured
    /\ Written("compile", {}) => binary = [commit |-> checkout, tree |-> tree]

(* The stamp of configure is not told while configure runs.                 *)
StampFits ==
    /\ Written("configure", {}) \/ stamp = tree
    /\ isRunning /\ cancelled => Step # "configure"

Building ==
    isRunning =>
        /\ Planned(options.virgl, steps)
        /\ Step \in VirglParts => options.virgl
        /\ result # "ok"

BuildTypes ==
    /\ options \in Options
    /\ process \in {"none", "runs", "half", "done"}
    /\ virglUpstream \in 0 .. MaxNews + 1

BInv ==
    /\ BuildTypes
    /\ Building
    /\ SourcesThere
    /\ VirglThere
    /\ QemuThere
    /\ StampFits
    /\ StampTaken
    /\ BuiltAsAsked

-----------------------------------------------------------------------------
(* The plan of a build.                                                     *)

LEMMA Shorter ==
    ASSUME NEW S, NEW s \in Seq(S), Len(s) > 0
    PROVE  /\ s # <<>> /\ Head(s) = s[1] /\ s[1] \in S
           /\ Tail(s) \in Seq(S) /\ Len(Tail(s)) = Len(s) - 1 /\ Len(s) \in Nat
           /\ \A i \in 1 .. Len(s) - 1 : Tail(s)[i] = s[i + 1]
           /\ Tail(s) = <<>> <=> Len(s) = 1
<1>1. /\ s # <<>> /\ Head(s) = s[1] /\ s[1] \in S
      /\ Tail(s) \in Seq(S) /\ Len(Tail(s)) = Len(s) - 1 /\ Len(s) \in Nat
      /\ \A i \in 1 .. Len(s) - 1 : Tail(s)[i] = s[i + 1]
    OBVIOUS
<1>2. Tail(s) # <<>> => Len(Tail(s)) \in Nat \ {0}
    BY <1>1, EmptySeq
<1>3. Tail(s) = <<>> => Len(Tail(s)) = 0
    BY EmptySeq
<1> QED
    BY <1>1, <1>2, <1>3

LEMMA Longer ==
    ASSUME NEW S, NEW s \in Seq(S), NEW t \in Seq(S)
    PROVE  /\ s \o t \in Seq(S) /\ Len(s \o t) = Len(s) + Len(t)
           /\ \A i \in 1 .. Len(s) : (s \o t)[i] = s[i]
           /\ \A i \in 1 .. Len(t) : (s \o t)[i + Len(s)] = t[i]
    OBVIOUS

LEMMA OneOrMore == \A n \in Nat : n > 0 => 1 \in 1 .. n /\ (n > 1 <=> n # 1)
    OBVIOUS

LEMMA PlanGoesOn ==
    ASSUME NEW virgl, NEW s \in Seq(StepNames), Planned(virgl, s)
    PROVE  /\ s # <<>> /\ Head(s) \in StepNames
           /\ Len(s) > 1 <=> Head(s) # "compile"
           /\ Tail(s) = <<>> <=> Head(s) = "compile"
           /\ Len(s) > 1 => /\ s[2] = After(virgl, Head(s))
                            /\ Planned(virgl, Tail(s)) /\ Head(Tail(s)) = After(virgl, Head(s))
<1>1. /\ Len(s) > 0
      /\ \A i \in 1 .. Len(s) : (s[i] = "compile") <=> (i = Len(s))
      /\ \A i \in 1 .. Len(s) - 1 : s[i + 1] = After(virgl, s[i])
    BY DEF Planned
<1>2. /\ s # <<>> /\ Head(s) = s[1] /\ s[1] \in StepNames
      /\ Tail(s) \in Seq(StepNames) /\ Len(Tail(s)) = Len(s) - 1 /\ Len(s) \in Nat
      /\ \A i \in 1 .. Len(s) - 1 : Tail(s)[i] = s[i + 1]
      /\ Tail(s) = <<>> <=> Len(s) = 1
    BY <1>1, Shorter
<1>3. /\ Len(s) > 1 <=> Head(s) # "compile"
      /\ Len(s) = 1 <=> Head(s) = "compile"
    <2>0. Len(s) \in Nat /\ Len(s) > 0
        BY <1>1, <1>2
    <2>1. 1 \in 1 .. Len(s)
        BY <2>0, OneOrMore
    <2>2. (s[1] = "compile") <=> (1 = Len(s))
        BY <1>1, <2>1
    <2>3. Len(s) > 1 <=> Len(s) # 1
        BY <2>0, OneOrMore
    <2> QED
        BY <1>2, <2>2, <2>3
<1>4. ASSUME Len(s) > 1
      PROVE  s[2] = After(virgl, Head(s)) /\ Planned(virgl, Tail(s)) /\ Head(Tail(s)) = After(virgl, Head(s))
    <2> DEFINE t == Tail(s)
    <2>1. s[1 + 1] = After(virgl, s[1])
        <3>1. 1 \in 1 .. Len(s) - 1
            BY <1>2, <1>4
        <3> QED
            BY <1>1, <3>1
    <2>2. t \in Seq(StepNames) /\ Len(t) > 0 /\ Len(t) = Len(s) - 1 /\ t[1] = s[1 + 1]
        <3>1. 1 \in 1 .. Len(s) - 1
            BY <1>2, <1>4
        <3> QED
            BY <1>2, <1>4, <3>1
    <2>3. \A i \in 1 .. Len(t) : (t[i] = "compile") <=> (i = Len(t))
        <3>1. \A i \in 1 .. Len(s) - 1 : i + 1 \in 1 .. Len(s) /\ ((i + 1 = Len(s)) <=> (i = Len(s) - 1))
            BY <1>2
        <3> HIDE DEF t
        <3>2. \A i \in 1 .. Len(s) - 1 : t[i] = s[i + 1]
            BY <1>2 DEF t
        <3> QED
            BY <1>1, <2>2, <3>1, <3>2
    <2>4. \A i \in 1 .. Len(t) - 1 : t[i + 1] = After(virgl, t[i])
        <3>1. \A i \in 1 .. (Len(s) - 1) - 1 :
                  i \in 1 .. Len(s) - 1 /\ i + 1 \in 1 .. Len(s) - 1
            BY <1>2
        <3> HIDE DEF t
        <3>2. \A i \in 1 .. Len(s) - 1 : t[i] = s[i + 1]
            BY <1>2 DEF t
        <3> QED
            BY <1>1, <2>2, <3>1, <3>2
    <2>5. Head(t) = t[1]
        BY <2>2, Shorter
    <2> HIDE DEF t
    <2>6. Planned(virgl, t)
        BY <2>2, <2>3, <2>4 DEF Planned
    <2>7. s[2] = After(virgl, Head(s)) /\ Head(t) = After(virgl, Head(s))
        BY <1>2, <2>1, <2>2, <2>5
    <2> QED
        BY <2>6, <2>7 DEF t
<1> QED
    BY <1>1, <1>2, <1>3, <1>4

(* What can be put before a plan.                                           *)
Leads(virgl, s, t) ==
    /\ Len(s) > 0
    /\ \A i \in 1 .. Len(s) : s[i] # "compile"
    /\ \A i \in 1 .. Len(s) - 1 : s[i + 1] = After(virgl, s[i])
    /\ t[1] = After(virgl, s[Len(s)])

LEMMA PlanPrepended ==
    ASSUME NEW virgl, NEW a \in Seq(StepNames), NEW b \in Seq(StepNames),
           Planned(virgl, b), Leads(virgl, a, b)
    PROVE  Planned(virgl, a \o b) /\ (a \o b)[1] = a[1]
<1> DEFINE s == a \o b
<1>1. /\ s \in Seq(StepNames) /\ Len(s) = Len(a) + Len(b) /\ Len(a) \in Nat /\ Len(b) \in Nat
      /\ \A i \in 1 .. Len(a) : s[i] = a[i]
      /\ \A i \in 1 .. Len(b) : s[i + Len(a)] = b[i]
    BY Longer
<1>2. /\ Len(b) > 0
      /\ \A i \in 1 .. Len(b) : (b[i] = "compile") <=> (i = Len(b))
      /\ \A i \in 1 .. Len(b) - 1 : b[i + 1] = After(virgl, b[i])
    BY DEF Planned
<1>3. /\ Len(a) > 0
      /\ \A i \in 1 .. Len(a) : a[i] # "compile"
      /\ \A i \in 1 .. Len(a) - 1 : a[i + 1] = After(virgl, a[i])
      /\ b[1] = After(virgl, a[Len(a)])
    BY DEF Leads
<1> HIDE DEF s
<1>4. ASSUME NEW i \in 1 .. Len(s)
      PROVE  (s[i] = "compile") <=> (i = Len(s))
    <2>1. CASE i \in 1 .. Len(a)
        BY <1>1, <1>2, <1>3, <2>1
    <2>2. CASE i \notin 1 .. Len(a)
        <3> DEFINE j == i - Len(a)
        <3>1. j \in 1 .. Len(b) /\ i = j + Len(a)
            BY <1>1, <2>2
        <3>2. s[i] = b[j] /\ ((i = Len(s)) <=> (j = Len(b)))
            BY <1>1, <3>1
        <3> QED
            BY <1>2, <3>1, <3>2
    <2> QED
        BY <2>1, <2>2
<1>5. ASSUME NEW i \in 1 .. Len(s) - 1
      PROVE  s[i + 1] = After(virgl, s[i])
    <2>1. CASE i \in 1 .. Len(a) - 1
        <3>1. i \in 1 .. Len(a) /\ i + 1 \in 1 .. Len(a)
            BY <1>1, <2>1
        <3> QED
            BY <1>1, <1>3, <2>1, <3>1
    <2>2. CASE i = Len(a)
        <3>1. i \in 1 .. Len(a) /\ i + 1 = 1 + Len(a)
            BY <1>1, <1>3, <2>2
        <3>2. 1 \in 1 .. Len(b)
            BY <1>1, <1>2
        <3> QED
            BY <1>1, <1>3, <2>2, <3>1, <3>2
    <2>3. CASE i \notin 1 .. Len(a)
        <3> DEFINE j == i - Len(a)
        <3>1. j \in 1 .. Len(b) - 1 /\ j \in 1 .. Len(b) /\ j + 1 \in 1 .. Len(b)
              /\ i = j + Len(a) /\ i + 1 = (j + 1) + Len(a)
            BY <1>1, <2>3
        <3> HIDE DEF j
        <3>2. s[i] = b[j] /\ s[i + 1] = b[j + 1]
            BY <1>1, <3>1
        <3> QED
            BY <1>2, <3>1, <3>2
    <2>4. i \in 1 .. Len(a) - 1 \/ i = Len(a) \/ i \notin 1 .. Len(a)
        BY <1>1
    <2> QED
        BY <2>1, <2>2, <2>3, <2>4
<1>6. Planned(virgl, s)
    BY <1>1, <1>2, <1>4, <1>5 DEF Planned
<1>7. s[1] = a[1]
    BY <1>1, <1>3
<1> QED
    BY <1>6, <1>7 DEF s

LEMMA StepSequences ==
    /\ <<"clone">> \in Seq(StepNames) /\ <<"fetch", "reset">> \in Seq(StepNames)
    /\ <<"virgl download", "virgl patch", "virgl configure", "virgl compile">> \in Seq(StepNames)
    BY DEF StepNames

LEMMA QemuLeads ==
    ASSUME NEW virgl, NEW b \in Seq(StepNames), b[1] = After(virgl, "clone")
    PROVE  /\ <<"clone">> \in Seq(StepNames) /\ <<"fetch", "reset">> \in Seq(StepNames)
           /\ Leads(virgl, <<"clone">>, b)
           /\ Leads(virgl, <<"fetch", "reset">>, b)
<1>1. <<"clone">> \in Seq(StepNames) /\ <<"fetch", "reset">> \in Seq(StepNames)
    BY StepSequences
<1>2. Leads(virgl, <<"clone">>, b)
    BY DEF Leads
<1>3. Leads(virgl, <<"fetch", "reset">>, b)
    <2> DEFINE a == <<"fetch", "reset">>
    <2>1. Len(a) = 2 /\ a[1] = "fetch" /\ a[2] = "reset" /\ a[1 + 1] = "reset"
        OBVIOUS
    <2>6. After(virgl, "fetch") = "reset"
        BY DEF After
    <2>5. After(virgl, "reset") = After(virgl, "clone")
        BY DEF After
    <2> HIDE DEF a
    <2>2. \A i \in 1 .. 2 : i = 1 \/ i = 2
        OBVIOUS
    <2>3. \A i \in 1 .. 2 - 1 : i = 1
        OBVIOUS
    <2>4. Leads(virgl, a, b)
        BY <2>1, <2>2, <2>3, <2>5, <2>6 DEF Leads
    <2> QED
        BY <2>4 DEF a
<1> QED
    BY <1>1, <1>2, <1>3

LEMMA FourSteps ==
    ASSUME NEW virgl, NEW s \in Seq(StepNames), NEW t \in Seq(StepNames), Len(s) = 4,
           s[1] # "compile", s[2] # "compile", s[3] # "compile", s[4] # "compile",
           s[2] = After(virgl, s[1]), s[3] = After(virgl, s[2]), s[4] = After(virgl, s[3]),
           t[1] = After(virgl, s[4])
    PROVE  Leads(virgl, s, t)
<1>1. \A i \in 1 .. 4 : i = 1 \/ i = 2 \/ i = 3 \/ i = 4
    OBVIOUS
<1>2. \A i \in 1 .. 4 - 1 : i = 1 \/ i = 2 \/ i = 3
    OBVIOUS
<1>3. \A i \in 1 .. Len(s) : s[i] # "compile"
    BY <1>1
<1>4. \A i \in 1 .. Len(s) - 1 : s[i + 1] = After(virgl, s[i])
    <2>1. s[1 + 1] = After(virgl, s[1]) /\ s[2 + 1] = After(virgl, s[2]) /\ s[3 + 1] = After(virgl, s[3])
        OBVIOUS
    <2> QED
        BY <1>2, <2>1
<1> QED
    BY <1>3, <1>4 DEF Leads

LEMMA VirglLeads ==
    ASSUME NEW virgl, virgl, NEW t \in Seq(StepNames), t[1] = "configure"
    PROVE  /\ VirglSteps(virgl) \in Seq(StepNames)
           /\ VirglSteps(virgl)[1] = "virgl download"
           /\ Leads(virgl, VirglSteps(virgl), t)
<1> DEFINE s == <<"virgl download", "virgl patch", "virgl configure", "virgl compile">>
<1>1. VirglSteps(virgl) = s /\ s \in Seq(StepNames)
    BY StepSequences DEF VirglSteps
<1>2. /\ Len(s) = 4 /\ s[1] = "virgl download" /\ s[2] = "virgl patch"
      /\ s[3] = "virgl configure" /\ s[4] = "virgl compile"
    OBVIOUS
<1> HIDE DEF s
<1>3. /\ After(virgl, "virgl download") = "virgl patch"
      /\ After(virgl, "virgl patch") = "virgl configure"
      /\ After(virgl, "virgl configure") = "virgl compile"
      /\ After(virgl, "virgl compile") = "configure"
    BY DEF After
<1>4. Leads(virgl, s, t)
    BY <1>1, <1>2, <1>3, FourSteps
<1> QED
    BY <1>1, <1>2, <1>4

LEMMA LastSteps ==
    ASSUME NEW virgl
    PROVE  /\ <<"configure", "compile">> \in Seq(StepNames)
           /\ Planned(virgl, <<"configure", "compile">>)
           /\ <<"configure", "compile">>[1] = "configure"
<1> DEFINE b == <<"configure", "compile">>
<1>1. b \in Seq(StepNames)
    BY DEF StepNames
<1>2. Len(b) = 2 /\ b[1] = "configure" /\ b[2] = "compile" /\ b[1 + 1] = After(virgl, b[1])
    BY DEF After
<1> HIDE DEF b
<1>3. \A i \in 1 .. 2 : i = 1 \/ i = 2
    OBVIOUS
<1>4. \A i \in 1 .. 2 - 1 : i = 1
    OBVIOUS
<1>5. Planned(virgl, b)
    BY <1>1, <1>2, <1>3, <1>4 DEF Planned
<1> QED
    BY <1>1, <1>2, <1>5 DEF b

LEMMA PlanOfABuild ==
    ASSUME NEW virgl \in BOOLEAN,
           NEW s, s = QemuSteps \o VirglSteps(virgl) \o <<"configure", "compile">>
    PROVE  Planned(virgl, s) /\ Head(s) \in {"clone", "fetch"}
<1> DEFINE first == QemuSteps
           last == <<"configure", "compile">>
           rest == VirglSteps(virgl) \o last
<1>1. last \in Seq(StepNames) /\ Planned(virgl, last) /\ last[1] = "configure"
    BY LastSteps
<1>2. VirglSteps(virgl) \in Seq(StepNames)
    <2>1. CASE virgl
        BY <1>1, <2>1, VirglLeads
    <2>2. CASE ~virgl
        BY <2>2 DEF VirglSteps
    <2> QED
        BY <2>1, <2>2
<1> HIDE DEF last
<1>3. Planned(virgl, rest) /\ rest \in Seq(StepNames) /\ rest[1] = After(virgl, "clone")
    <2>1. CASE virgl
        <3>1. VirglSteps(virgl)[1] = "virgl download" /\ Leads(virgl, VirglSteps(virgl), last)
            BY <1>1, <2>1, VirglLeads
        <3>2. Planned(virgl, rest) /\ rest[1] = "virgl download"
            BY <1>1, <1>2, <2>1, <3>1, PlanPrepended
        <3> QED
            BY <1>1, <1>2, <2>1, <3>2, Longer DEF After
    <2>2. CASE ~virgl
        <3>1. rest = last
            BY <1>1, <2>2, ConcatEmptySeq DEF VirglSteps
        <3> QED
            BY <1>1, <2>2, <3>1 DEF After
    <2> QED
        BY <2>1, <2>2
<1>4. first \in Seq(StepNames) /\ Leads(virgl, first, rest) /\ first[1] \in {"clone", "fetch"}
    <2> HIDE DEF rest
    <2> QED
        BY <1>3, QemuLeads DEF QemuSteps
<1>5. s = first \o rest
    BY <1>1, <1>2, <1>4, ConcatAssociative DEF last
<1> HIDE DEF first, rest
<1>6. Planned(virgl, s) /\ s[1] = first[1]
    BY <1>3, <1>4, <1>5, PlanPrepended
<1>7. Head(s) = s[1]
    BY <1>6, Shorter DEF Planned
<1> QED
    BY <1>4, <1>6, <1>7

-----------------------------------------------------------------------------
(* Nothing runs: there is nothing to say of the steps.                      *)
LEMMA NothingRuns ==
    ASSUME BInv, process' = "none", options' \in Options,
           UNCHANGED <<virglUpstream, stamp, tree, patched>>,
           stamp = tree, BuiltAsAsked'
    PROVE  BInv'
BY DEF BInv, BuildTypes, Building, SourcesThere, VirglThere, QemuThere, StampFits, StampTaken,
       Past, Written, isRunning

LEMMA StartKeeps ==
    ASSUME BInv, NEW o \in Options, Start(o)
    PROVE  BInv'
<1>1. /\ ~isRunning /\ options' = o /\ result' = "none" /\ process' = "runs" /\ cancelled' = FALSE
      /\ steps' = QemuSteps \o VirglSteps(o.virgl) \o <<"configure", "compile">>
      /\ UNCHANGED <<askVars, qemuVars, virglVars>>
    BY DEF Start
<1>2. Planned(options.virgl, steps)' /\ Step' \in {"clone", "fetch"}
    <2>1. o.virgl \in BOOLEAN
        BY DEF Options
    <2> QED
        BY <1>1, <2>1, PlanOfABuild DEF Step
<1>3. stamp = tree
    BY <1>1 DEF BInv, StampFits, Written
<1>4. BuildTypes' /\ Building'
    BY <1>1, <1>2 DEF BInv, BuildTypes, Building, askVars, VirglParts
<1>5. SourcesThere' /\ VirglThere' /\ QemuThere'
    BY <1>1, <1>2 DEF SourcesThere, VirglThere, QemuThere, Past, Written, VirglParts
<1>6. StampFits' /\ StampTaken' /\ BuiltAsAsked'
    BY <1>1, <1>2, <1>3 DEF BInv, StampFits, StampTaken, BuiltAsAsked, NewestThatTakesThem, qemuVars, virglVars
<1> QED
    BY <1>4, <1>5, <1>6 DEF BInv

LEMMA BeginsKeeps ==
    ASSUME BInv, ToolBegins
    PROVE  BInv'
<1>1. /\ process = "runs" /\ process' = "half" /\ Begins /\ isRunning /\ isRunning'
      /\ UNCHANGED <<askVars, options, steps, cancelled, result, builds, stamp, built>>
      /\ Step' = Step
    BY DEF ToolBegins, isRunning, Step
<1>2. BuildTypes' /\ Building' /\ BuiltAsAsked'
    BY <1>1 DEF BInv, BuildTypes, Building, BuiltAsAsked, askVars
<1>3. Step \in StepNames
    BY <1>1, PlanGoesOn DEF BInv, Building, Planned, Step
<1>4. ~Written("configure", {}) /\ stamp = tree /\ (Step = "configure" => ~cancelled)
    BY <1>1 DEF BInv, StampFits, Written
<1>5. /\ Past("fetch", {"reset"})' <=> Step = "reset"
      /\ Past("clone", VirglParts \cup {"configure", "compile"})' <=>
            Step \in VirglParts \cup {"configure", "compile"}
      /\ ~Past("reset", {})'
      /\ Past("virgl download", {"virgl patch", "virgl configure", "virgl compile", "configure", "compile"})' <=>
            Step \in {"virgl patch", "virgl configure", "virgl compile", "configure", "compile"}
      /\ Past("virgl patch", {"virgl configure", "virgl compile", "configure", "compile"})' <=>
            Step \in {"virgl configure", "virgl compile", "configure", "compile"}
      /\ Past("virgl configure", {"virgl compile", "configure", "compile"})' <=>
            Step \in {"virgl compile", "configure", "compile"}
      /\ Past("virgl compile", {"configure", "compile"})' <=> Step \in {"configure", "compile"}
      /\ Written("configure", {"compile"})' <=> Step \in {"configure", "compile"}
      /\ Written("configure", {})' <=> Step = "configure"
      /\ Written("compile", {})' <=> Step = "compile"
    BY <1>1 DEF Past, Written
<1>6. /\ Step = "reset" => fetched.branch = options.branch
      /\ Step \in VirglParts \cup {"configure", "compile"} => checkout.branch = options.branch
      /\ options.virgl =>
            /\ Step \in {"virgl patch", "virgl configure", "virgl compile", "configure", "compile"} =>
                virglFetched \in 0 .. MaxNews + 1
            /\ Step \in {"virgl configure", "virgl compile", "configure", "compile"} =>
                patched = virglSrc /\ NewestFor(options.branch)
            /\ Step \in {"virgl compile", "configure", "compile"} => virglTree = Renderers(virglSrc)
            /\ Step \in {"configure", "compile"} => installed = virglSrc
      /\ Step = "compile" => tree = Configured
    BY <1>1 DEF BInv, SourcesThere, VirglThere, QemuThere, Past, Written
<1> USE DEF BInv
<1>7. CASE Step \in {"clone", "reset"}
    <2>1. UNCHANGED <<virglVars, tree, fetched>>
        BY <1>1, <1>7 DEF Begins, Runs
    <2>2. SourcesThere' /\ VirglThere' /\ QemuThere'
        BY <1>1, <1>5, <1>6, <1>7, <2>1 DEF SourcesThere, VirglThere, QemuThere, VirglParts
    <2>3. StampFits' /\ StampTaken'
        BY <1>1, <1>4, <1>7, <2>1 DEF StampFits, StampTaken, virglVars
    <2> QED
        BY <1>2, <2>2, <2>3
<1>8. CASE Step \in {"fetch", "virgl download"}
    <2>1. UNCHANGED <<checkout, fetched, tree, binary, virglVars>>
        BY <1>1, <1>8 DEF Begins, Runs
    <2>2. SourcesThere' /\ VirglThere' /\ QemuThere'
        BY <1>1, <1>5, <1>6, <1>8, <2>1 DEF SourcesThere, VirglThere, QemuThere, VirglParts
    <2>3. StampFits' /\ StampTaken'
        BY <1>1, <1>4, <1>8, <2>1 DEF StampFits, StampTaken, virglVars
    <2> QED
        BY <1>2, <2>2, <2>3
<1>9. CASE Step = "virgl patch"
    <2>1. PatchBegins /\ UNCHANGED <<checkout, fetched, tree, binary, virglFetched, virglTree, virglOptions, installed>>
        BY <1>1, <1>9 DEF Begins, Runs
    <2>2. SourcesThere' /\ VirglThere' /\ QemuThere'
        BY <1>1, <1>5, <1>6, <1>9, <2>1 DEF SourcesThere, VirglThere, QemuThere, VirglParts
    <2>3. StampFits' /\ StampTaken'
        BY <1>1, <1>4, <1>9, <2>1 DEF StampFits, StampTaken, PatchBegins
    <2> QED
        BY <1>2, <2>2, <2>3
<1>10. CASE Step = "virgl configure"
    <2>1. UNCHANGED <<checkout, fetched, tree, binary, virglFetched, virglSrc, patched, installed>>
        BY <1>1, <1>10 DEF Begins, Runs
    <2>2. SourcesThere' /\ QemuThere'
        BY <1>1, <1>5, <1>6, <1>10, <2>1 DEF SourcesThere, QemuThere, VirglParts
    <2>3. VirglThere'
        BY <1>1, <1>5, <1>6, <1>10, <2>1 DEF VirglThere, NewestFor
    <2>4. StampFits' /\ StampTaken'
        BY <1>1, <1>4, <1>10, <2>1 DEF StampFits, StampTaken
    <2> QED
        BY <1>2, <2>2, <2>3, <2>4
<1>11. CASE Step = "virgl compile"
    <2>1. UNCHANGED <<checkout, fetched, tree, binary, virglFetched, virglSrc, patched, virglTree, virglOptions>>
        BY <1>1, <1>11 DEF Begins, Runs
    <2>2. SourcesThere' /\ QemuThere'
        BY <1>1, <1>5, <1>6, <1>11, <2>1 DEF SourcesThere, QemuThere, VirglParts
    <2>3. VirglThere'
        BY <1>1, <1>5, <1>6, <1>11, <2>1 DEF VirglThere, NewestFor, Renderers
    <2>4. StampFits' /\ StampTaken'
        BY <1>1, <1>4, <1>11, <2>1 DEF StampFits, StampTaken
    <2> QED
        BY <1>2, <2>2, <2>3, <2>4
<1>12. CASE Step = "configure"
    <2>1. UNCHANGED <<checkout, fetched, binary, virglVars>> /\ tree' = Configured
        BY <1>1, <1>12 DEF Begins, Runs, Configured
    <2>2. SourcesThere'
        BY <1>1, <1>5, <1>6, <1>12, <2>1 DEF SourcesThere, VirglParts
    <2>3. VirglThere'
        BY <1>1, <1>5, <1>6, <1>12, <2>1 DEF VirglThere, NewestFor, Renderers, virglVars
    <2>4. QemuThere'
        BY <1>1, <1>5, <1>12, <2>1 DEF QemuThere, Configured, virglVars
    <2>5. StampFits' /\ StampTaken'
        BY <1>1, <1>4, <1>5, <1>12, <2>1 DEF StampFits, StampTaken, virglVars
    <2> QED
        BY <1>2, <2>2, <2>3, <2>4, <2>5
<1>13. CASE Step = "compile"
    <2>1. UNCHANGED <<checkout, fetched, tree, virglVars>> /\ binary' = [commit |-> checkout, tree |-> tree]
        BY <1>1, <1>13 DEF Begins, Runs
    <2>2. SourcesThere'
        BY <1>1, <1>5, <1>6, <1>13, <2>1 DEF SourcesThere, VirglParts
    <2>3. VirglThere'
        BY <1>1, <1>5, <1>6, <1>13, <2>1 DEF VirglThere, NewestFor, Renderers, virglVars
    <2>4. QemuThere'
        BY <1>1, <1>5, <1>6, <1>13, <2>1 DEF QemuThere, Configured, virglVars
    <2>5. StampFits' /\ StampTaken'
        BY <1>1, <1>4, <1>13, <2>1 DEF StampFits, StampTaken, virglVars
    <2> QED
        BY <1>2, <2>2, <2>3, <2>4, <2>5
<1> QED
    BY <1>3, <1>7, <1>8, <1>9, <1>10, <1>11, <1>12, <1>13 DEF StepNames

(* The patches that the second half of a step has applied are the newest,   *)
(* whether it knew them by the stamp or tried them.                         *)
LEMMA GoalIsNewest ==
    ASSUME StampTaken, virglFetched \in 0 .. MaxNews + 1, checkout.branch \in Branches
    PROVE  LET p == checkout.branch
               with == {c \in {virglFetched, Release} : <<c, p>> \in Takes}
           IN /\ Goal.patches = None \/ <<Goal.commit, Goal.patches>> \in Takes
              /\ IF with = {} THEN Goal = [commit |-> virglFetched, patches |-> None]
                 ELSE /\ Goal.patches = p
                      /\ Goal.commit \in with
                      /\ \A c \in with : c <= Goal.commit
<1> DEFINE p == checkout.branch
           with == {c \in {virglFetched, Release} : <<c, p>> \in Takes}
           Fits(c) == patched = [commit |-> c, patches |-> p] \/ <<c, p>> \in Takes
<1>1. p # None /\ Release = 0 /\ 0 \in 0 .. MaxNews + 1
    BY NoneAssumption, ConstantsAssumption DEF Release
<1>2. ASSUME NEW c \in 0 .. MaxNews + 1
      PROVE  Fits(c) <=> <<c, p>> \in Takes
    <2>1. [commit |-> c, patches |-> p] \in Sources
        BY DEF Sources
    <2> QED
        BY <1>1, <2>1, NoneAssumption DEF StampTaken
<1>3. Goal = IF Fits(virglFetched) THEN [commit |-> virglFetched, patches |-> p]
             ELSE IF Fits(Release) THEN [commit |-> Release, patches |-> p]
             ELSE [commit |-> virglFetched, patches |-> None]
    BY DEF Goal, PatchGoal
<1> HIDE DEF p, Fits
<1>4. CASE <<virglFetched, p>> \in Takes
    <2>1. Goal = [commit |-> virglFetched, patches |-> p]
        BY <1>2, <1>3, <1>4
    <2>2. virglFetched \in with /\ \A c \in with : c <= virglFetched
        BY <1>1, <1>4
    <2> QED
        BY <1>4, <2>1, <2>2 DEF p
<1>5. CASE <<virglFetched, p>> \notin Takes /\ <<Release, p>> \in Takes
    <2>1. Goal = [commit |-> Release, patches |-> p]
        BY <1>1, <1>2, <1>3, <1>5
    <2>2. with = {Release}
        BY <1>5
    <2> QED
        BY <1>1, <1>5, <2>1, <2>2 DEF p
<1>6. CASE <<virglFetched, p>> \notin Takes /\ <<Release, p>> \notin Takes
    <2>1. Goal = [commit |-> virglFetched, patches |-> None]
        BY <1>1, <1>2, <1>3, <1>6
    <2>2. with = {}
        BY <1>6
    <2> QED
        BY <2>1, <2>2 DEF p
<1> QED
    BY <1>4, <1>5, <1>6

LEMMA CompletesKeeps ==
    ASSUME BInv, ToolCompletes
    PROVE  BInv'
<1>1. /\ process = "half" /\ process' = "done" /\ Completes /\ isRunning /\ isRunning'
      /\ UNCHANGED <<askVars, options, steps, cancelled, result, builds, tree, stamp, binary, built>>
      /\ Step' = Step
    BY DEF ToolCompletes, isRunning, Step
<1>2. BuildTypes' /\ Building' /\ BuiltAsAsked'
    BY <1>1 DEF BInv, BuildTypes, Building, BuiltAsAsked, askVars
<1>3. Step \in StepNames
    BY <1>1, PlanGoesOn DEF BInv, Building, Planned, Step
<1>4. StampFits'
    BY <1>1 DEF BInv, StampFits, Written
<1>5. /\ Past("fetch", {"reset"})' <=> Step \in {"fetch", "reset"}
      /\ Past("clone", VirglParts \cup {"configure", "compile"})' \/ Past("reset", {})' <=>
            Step \in {"clone", "reset"} \cup VirglParts \cup {"configure", "compile"}
      /\ Past("virgl download", {"virgl patch", "virgl configure", "virgl compile", "configure", "compile"})' <=>
            Step \in {"virgl download", "virgl patch", "virgl configure", "virgl compile", "configure", "compile"}
      /\ Past("virgl patch", {"virgl configure", "virgl compile", "configure", "compile"})' <=>
            Step \in {"virgl patch", "virgl configure", "virgl compile", "configure", "compile"}
      /\ Past("virgl configure", {"virgl compile", "configure", "compile"})' <=>
            Step \in {"virgl configure", "virgl compile", "configure", "compile"}
      /\ Past("virgl compile", {"configure", "compile"})' <=> Step \in {"virgl compile", "configure", "compile"}
      /\ Written("configure", {"compile"})' <=> Step \in {"configure", "compile"}
      /\ Written("compile", {})' <=> Step = "compile"
    BY <1>1 DEF Past, Written
<1>6. /\ Step = "reset" => fetched.branch = options.branch
      /\ Step \in VirglParts \cup {"configure", "compile"} => checkout.branch = options.branch
      /\ options.virgl =>
            /\ Step \in {"virgl patch", "virgl configure", "virgl compile", "configure", "compile"} =>
                virglFetched \in 0 .. MaxNews + 1
            /\ Step \in {"virgl configure", "virgl compile", "configure", "compile"} =>
                patched = virglSrc /\ NewestFor(options.branch)
            /\ Step \in {"virgl compile", "configure", "compile"} => virglTree = Renderers(virglSrc)
            /\ Step \in {"configure", "compile"} => installed = virglSrc
      /\ Step \in {"configure", "compile"} => tree = Configured
      /\ Step = "compile" => binary = [commit |-> checkout, tree |-> tree]
    BY <1>1 DEF BInv, SourcesThere, VirglThere, QemuThere, Past, Written
<1> USE DEF BInv
<1>7. CASE Step = "clone"
    <2>1. UNCHANGED virglVars /\ checkout'.branch = options.branch
        BY <1>1, <1>7 DEF Completes, Runs
    <2> QED
        BY <1>1, <1>2, <1>4, <1>5, <1>7, <2>1 DEF SourcesThere, VirglThere, QemuThere, VirglParts, StampTaken, virglVars
<1>8. CASE Step = "fetch"
    <2>1. UNCHANGED virglVars /\ fetched'.branch = options.branch
        BY <1>1, <1>8 DEF Completes, Runs
    <2> QED
        BY <1>1, <1>2, <1>4, <1>5, <1>8, <2>1 DEF SourcesThere, VirglThere, QemuThere, VirglParts, StampTaken, virglVars
<1>9. CASE Step = "reset"
    <2>1. UNCHANGED virglVars /\ checkout' = fetched /\ fetched' = fetched
        BY <1>1, <1>9 DEF Completes, Runs
    <2> QED
        BY <1>1, <1>2, <1>4, <1>5, <1>6, <1>9, <2>1 DEF SourcesThere, VirglThere, QemuThere, VirglParts, StampTaken, virglVars
<1>10. CASE Step = "virgl download"
    <2>1. virglFetched' = virglUpstream /\ UNCHANGED <<checkout, fetched, virglSrc, patched, virglTree, virglOptions, installed>>
        BY <1>1, <1>10 DEF Completes, Runs
    <2> QED
        BY <1>1, <1>2, <1>4, <1>5, <1>6, <1>10, <2>1
        DEF SourcesThere, VirglThere, QemuThere, VirglParts, StampTaken, BuildTypes
<1>11. CASE Step = "virgl patch"
    <2>1. /\ virglSrc' = Goal /\ patched' = Goal
          /\ UNCHANGED <<checkout, fetched, virglFetched, virglTree, virglOptions, installed>>
        BY <1>1, <1>11 DEF Completes, Runs
    <2>2. SourcesThere' /\ QemuThere'
        BY <1>1, <1>5, <1>6, <1>11, <2>1 DEF SourcesThere, QemuThere, VirglParts
    <2>3. NewestFor(options.branch)' /\ StampTaken'
        <3>1. checkout.branch = options.branch /\ options.branch \in Branches /\ virglFetched \in 0 .. MaxNews + 1
            BY <1>1, <1>6, <1>11 DEF VirglParts, BuildTypes, Options, Building
        <3> DEFINE b == options.branch
                   with == {c \in {virglFetched, Release} : <<c, b>> \in Takes}
        <3>2. /\ Goal.patches = None \/ <<Goal.commit, Goal.patches>> \in Takes
              /\ IF with = {} THEN Goal = [commit |-> virglFetched, patches |-> None]
                 ELSE /\ Goal.patches = b
                      /\ Goal.commit \in with
                      /\ \A c \in with : c <= Goal.commit
            BY <3>1, GoalIsNewest
        <3> QED
            BY <1>1, <2>1, <3>2 DEF NewestFor, StampTaken
    <2> QED
        BY <1>1, <1>2, <1>4, <1>5, <1>6, <1>11, <2>1, <2>2, <2>3 DEF VirglThere
<1>12. CASE Step = "virgl configure"
    <2>1. /\ virglTree' = Renderers(virglSrc)
          /\ UNCHANGED <<checkout, fetched, virglFetched, virglSrc, patched, installed>>
        BY <1>1, <1>12 DEF Completes, Runs
    <2>2. SourcesThere' /\ QemuThere' /\ StampTaken'
        BY <1>1, <1>5, <1>6, <1>12, <2>1 DEF SourcesThere, QemuThere, VirglParts, StampTaken
    <2>3. VirglThere'
        BY <1>1, <1>5, <1>6, <1>12, <2>1 DEF VirglThere, NewestFor, Renderers
    <2> QED
        BY <1>2, <1>4, <2>2, <2>3
<1>13. CASE Step = "virgl compile"
    <2>1. /\ installed' = virglSrc
          /\ UNCHANGED <<checkout, fetched, virglFetched, virglSrc, patched, virglTree, virglOptions>>
        BY <1>1, <1>13 DEF Completes, Runs
    <2>2. SourcesThere' /\ QemuThere' /\ StampTaken'
        BY <1>1, <1>5, <1>6, <1>13, <2>1 DEF SourcesThere, QemuThere, VirglParts, StampTaken
    <2>3. VirglThere'
        BY <1>1, <1>5, <1>6, <1>13, <2>1 DEF VirglThere, NewestFor, Renderers
    <2> QED
        BY <1>2, <1>4, <2>2, <2>3
<1>14. CASE Step \in {"configure", "compile"}
    <2>1. UNCHANGED <<checkout, fetched, virglVars>>
        BY <1>1, <1>14 DEF Completes, Runs
    <2>2. SourcesThere' /\ StampTaken'
        BY <1>1, <1>5, <1>6, <1>14, <2>1 DEF SourcesThere, VirglParts, StampTaken, virglVars
    <2>3. VirglThere'
        BY <1>1, <1>5, <1>6, <1>14, <2>1 DEF VirglThere, NewestFor, Renderers, virglVars
    <2>4. QemuThere'
        BY <1>1, <1>5, <1>6, <1>14, <2>1 DEF QemuThere, Configured, virglVars
    <2> QED
        BY <1>2, <1>4, <2>2, <2>3, <2>4
<1> QED
    BY <1>3, <1>7, <1>8, <1>9, <1>10, <1>11, <1>12, <1>13, <1>14 DEF StepNames

(* The step that follows one that ended well: a configure that is not       *)
(* needed is left out.                                                      *)
LEMMA NextStep ==
    ASSUME BInv, ToolSucceeds, ~cancelled, Step # "compile"
    PROVE  /\ Planned(options.virgl, steps') /\ steps' # <<>> /\ process' = "runs"
           /\ Step' = IF After(options.virgl, Step) = "configure" /\ Skip THEN "compile"
                      ELSE After(options.virgl, Step)
           /\ UNCHANGED <<built, result>>
<1> DEFINE rest == IF Len(steps) > 1 /\ steps[2] = "configure" /\ Skip THEN Tail(Tail(steps))
                   ELSE Tail(steps)
           skipped == After(options.virgl, Step) = "configure" /\ Skip
<1>1. process = "done" /\ Ended(0) /\ isRunning
    BY DEF ToolSucceeds, isRunning
<1>2. steps \in Seq(StepNames) /\ Planned(options.virgl, steps)
    BY <1>1 DEF BInv, Building, Planned
<1>3. /\ Len(steps) > 1 /\ Tail(steps) # <<>>
      /\ steps[2] = After(options.virgl, Step)
      /\ Planned(options.virgl, Tail(steps))
      /\ Head(Tail(steps)) = After(options.virgl, Step)
    BY <1>2, PlanGoesOn DEF Step
<1>4. /\ Planned(options.virgl, rest) /\ rest # <<>>
      /\ Head(rest) = IF skipped THEN "compile" ELSE After(options.virgl, Step)
    <2>1. CASE skipped
        <3> DEFINE t == Tail(steps)
        <3>1. t \in Seq(StepNames) /\ Planned(options.virgl, t) /\ Head(t) = "configure"
            BY <1>3, <2>1 DEF Planned
        <3> HIDE DEF t
        <3>2. /\ Planned(options.virgl, Tail(t)) /\ Head(Tail(t)) = After(options.virgl, "configure")
              /\ Tail(t) # <<>>
            <4>1. Len(t) > 1 /\ Tail(t) # <<>>
                BY <3>1, PlanGoesOn
            <4> QED
                BY <3>1, <4>1, PlanGoesOn
        <3>3. After(options.virgl, "configure") = "compile"
            BY DEF After
        <3> QED
            BY <1>3, <2>1, <3>2, <3>3 DEF t
    <2>2. CASE ~skipped
        BY <1>3, <2>2
    <2> QED
        BY <2>1, <2>2
<1> HIDE DEF rest
<1>5. RunNext
    BY <1>1 DEF Ended
<1>6. steps' = rest /\ process' = "runs" /\ UNCHANGED <<built, result>>
    BY <1>4, <1>5 DEF RunNext, rest
<1> QED
    BY <1>4, <1>6 DEF Step

(* A step has ended well, and the next one starts; the last one's end is    *)
(* that of the build.                                                       *)
LEMMA SucceedsKeeps ==
    ASSUME BInv, ToolSucceeds
    PROVE  BInv'
<1>1. /\ process = "done" /\ Ended(0) /\ isRunning
      /\ UNCHANGED <<askVars, options, cancelled, builds, virglVars, checkout, fetched, tree, binary>>
    BY DEF ToolSucceeds, isRunning
<1>2. /\ steps \in Seq(StepNames) /\ Planned(options.virgl, steps) /\ Len(steps) > 0
      /\ Step \in VirglParts => options.virgl
    BY <1>1 DEF BInv, Building, Planned
<1>3. /\ steps # <<>> /\ Step \in StepNames
      /\ Len(steps) > 1 <=> Step # "compile"
      /\ Tail(steps) = <<>> <=> Step = "compile"
      /\ Len(steps) > 1 => /\ steps[2] = After(options.virgl, Step)
                           /\ Planned(options.virgl, Tail(steps))
                           /\ Head(Tail(steps)) = After(options.virgl, Step)
    BY <1>2, PlanGoesOn DEF Step
<1>4. CASE cancelled
    <2>1. process' = "none" /\ result' = "cancelled" /\ UNCHANGED <<steps, stamp, built>>
        BY <1>1, <1>4 DEF Ended, Finished
    <2>2. stamp = tree
        BY <1>1, <1>4 DEF BInv, StampFits, Written
    <2> QED
        BY <1>1, <2>1, <2>2, NothingRuns DEF BInv, BuildTypes, BuiltAsAsked, askVars, virglVars
<1>5. CASE ~cancelled
    <2>1. RunNext /\ stamp' = IF Step = "configure" THEN ConfigureStamp ELSE stamp
        BY <1>1, <1>5 DEF Ended
    <2>2. /\ Step = "fetch" => fetched.branch = options.branch
          /\ Step \in {"clone", "reset"} \cup VirglParts \cup {"configure", "compile"} =>
                checkout.branch = options.branch
          /\ options.virgl =>
            /\ Step \in {"virgl download", "virgl patch", "virgl configure", "virgl compile", "configure", "compile"} =>
                virglFetched \in 0 .. MaxNews + 1
            /\ Step \in {"virgl patch", "virgl configure", "virgl compile", "configure", "compile"} =>
                patched = virglSrc /\ NewestFor(options.branch)
            /\ Step \in {"virgl configure", "virgl compile", "configure", "compile"} =>
                virglTree = Renderers(virglSrc)
            /\ Step \in {"virgl compile", "configure", "compile"} => installed = virglSrc
          /\ Step \in {"configure", "compile"} => tree = Configured
          /\ Step = "compile" => binary = [commit |-> checkout, tree |-> tree]
        BY <1>1 DEF BInv, SourcesThere, VirglThere, QemuThere, Past, Written
    <2>3. Step # "configure" => stamp = tree
        BY <1>1 DEF BInv, StampFits, Written
    <2>4. stamp' = tree'
        <3>1. CASE Step = "configure"
            BY <1>1, <2>1, <2>2, <3>1 DEF ConfigureStamp, Configured
        <3> QED
            BY <1>1, <2>1, <2>3, <3>1
    <2>5. virglUpstream' = virglUpstream /\ patched' = patched
        BY <1>1 DEF askVars, virglVars
    <2>6. CASE Step = "compile"
        <3>1. /\ process' = "none" /\ result' = "ok"
              /\ built' = [commit |-> checkout, branch |-> options.branch]
            BY <1>3, <2>1, <2>6 DEF RunNext, Finished
        <3>2. tree = Configured /\ checkout.branch = options.branch
              /\ binary = [commit |-> checkout, tree |-> tree]
              /\ (options.virgl => /\ installed = virglSrc /\ virglTree = Renderers(virglSrc)
                                   /\ NewestFor(options.branch))
            BY <2>2, <2>6
        <3>6. NewestThatTakesThem'
            BY <1>1, <3>2 DEF NewestThatTakesThem, NewestFor, virglVars
        <3>3. BuiltAsAsked'
            BY <1>1, <3>1, <3>2, <3>6 DEF BuiltAsAsked, Configured, Renderers, virglVars
        <3>4. BuildTypes' /\ Building' /\ SourcesThere' /\ VirglThere' /\ QemuThere'
            BY <1>1, <2>5, <3>1 DEF BInv, BuildTypes, Building, SourcesThere, VirglThere, QemuThere, Past, Written, isRunning
        <3>5. StampFits' /\ StampTaken'
            BY <2>4, <2>5, <3>1 DEF BInv, StampFits, StampTaken, isRunning
        <3> QED
            BY <3>3, <3>4, <3>5 DEF BInv
    <2>7. CASE Step # "compile"
        <3> DEFINE skipped == After(options.virgl, Step) = "configure" /\ Skip
        <3>1. /\ Planned(options.virgl, steps') /\ steps' # <<>> /\ process' = "runs"
              /\ Step' = IF skipped THEN "compile" ELSE After(options.virgl, Step)
              /\ UNCHANGED <<built, result>>
            BY <1>5, <2>7, NextStep
        <3>2. steps' # <<>> /\ process' = "runs" /\ UNCHANGED <<built, result>>
            BY <3>1
        <3>3. Step' = IF skipped THEN "compile" ELSE After(options.virgl, Step)
            BY <3>1
        <3>4. isRunning' /\ cancelled' = FALSE /\ options' = options
            BY <1>1, <1>5, <3>2 DEF isRunning
        <3>5. skipped => tree = Configured
            <4>1. ASSUME skipped, options.virgl
                  PROVE  patched = installed
                <5>1. Step = "virgl compile"
                    BY <1>3, <2>7, <4>1 DEF After, StepNames
                <5> QED
                    BY <2>2, <4>1, <5>1
            <4>2. skipped => Step # "configure"
                BY DEF After
            <4> QED
                BY <2>3, <4>1, <4>2 DEF Skip, ConfigureStamp, Configured
        <3>6. skipped => Step \in {"clone", "reset", "virgl compile"}
            BY <1>3, <2>7 DEF After, StepNames
        <3>13. Step' = "compile" => tree = Configured
            BY <1>3, <2>2, <2>7, <3>3, <3>5 DEF After, StepNames
        <3>7. BuildTypes' /\ StampTaken' /\ BuiltAsAsked'
            BY <1>1, <2>5, <3>2, <3>4 DEF BInv, BuildTypes, StampTaken, BuiltAsAsked, Building
        <3>8. Building'
            <4>1. Step' \in VirglParts => options.virgl
                BY <1>2, <1>3, <3>3 DEF After, VirglParts, StepNames
            <4> QED
                BY <1>1, <3>1, <3>2, <3>4, <4>1 DEF BInv, Building
        <3>9. StampFits'
            BY <1>1, <1>5, <2>4 DEF StampFits
        <3>10. QemuThere'
            <4>1. Written("configure", {"compile"})' <=> Step' = "compile"
                BY <3>2, <3>4 DEF Written
            <4>2. ~Written("compile", {})'
                BY <3>2 DEF Written
            <4>3. tree' = tree /\ Configured' = Configured
                BY <1>1 DEF Configured, virglVars
            <4> QED
                BY <3>13, <4>1, <4>2, <4>3 DEF QemuThere
        <3>11. SourcesThere'
            <4>1. Step' = "reset" => Step = "fetch"
                BY <1>3, <3>3 DEF After, StepNames
            <4>2. Step' \in VirglParts \cup {"configure", "compile"} => Step # "fetch"
                BY <3>3, <3>6 DEF After, VirglParts
            <4>3. Step # "fetch" => Step \in {"clone", "reset"} \cup VirglParts \cup {"configure", "compile"}
                BY <1>3 DEF StepNames, VirglParts
            <4>4. /\ Past("fetch", {"reset"})' => Step' = "reset"
                  /\ Past("clone", VirglParts \cup {"configure", "compile"})' =>
                        Step' \in VirglParts \cup {"configure", "compile"}
                  /\ ~Past("reset", {})'
                BY <3>2 DEF Past
            <4> QED
                BY <1>1, <2>2, <4>1, <4>2, <4>3, <4>4 DEF SourcesThere
        <3>12. VirglThere'
            <4> SUFFICES ASSUME options.virgl PROVE VirglThere'
                BY <3>4 DEF VirglThere
            <4>1. /\ Step' \in {"virgl patch", "virgl configure", "virgl compile", "configure", "compile"} =>
                        Step \in {"virgl download", "virgl patch", "virgl configure", "virgl compile", "configure"}
                  /\ Step' \in {"virgl configure", "virgl compile", "configure", "compile"} =>
                        Step \in {"virgl patch", "virgl configure", "virgl compile", "configure"}
                  /\ Step' \in {"virgl compile", "configure", "compile"} =>
                        Step \in {"virgl configure", "virgl compile", "configure"}
                  /\ Step' \in {"configure", "compile"} => Step \in {"virgl compile", "configure"}
                BY <1>3, <2>7, <3>3 DEF After, StepNames
            <4>2. /\ Past("virgl download", {"virgl patch", "virgl configure", "virgl compile", "configure", "compile"})' =>
                        Step' \in {"virgl patch", "virgl configure", "virgl compile", "configure", "compile"}
                  /\ Past("virgl patch", {"virgl configure", "virgl compile", "configure", "compile"})' =>
                        Step' \in {"virgl configure", "virgl compile", "configure", "compile"}
                  /\ Past("virgl configure", {"virgl compile", "configure", "compile"})' =>
                        Step' \in {"virgl compile", "configure", "compile"}
                  /\ Past("virgl compile", {"configure", "compile"})' => Step' \in {"configure", "compile"}
                BY <3>2 DEF Past
            <4>3. /\ UNCHANGED <<virglFetched, virglSrc, patched, virglTree, installed, options>>
                  /\ NewestFor(options.branch)' <=> NewestFor(options.branch)
                  /\ Renderers(virglSrc)' = Renderers(virglSrc)
                BY <1>1 DEF virglVars, NewestFor, Renderers
            <4> QED
                BY <2>2, <4>1, <4>2, <4>3 DEF VirglThere
        <3> QED
            BY <3>7, <3>8, <3>9, <3>10, <3>11, <3>12 DEF BInv
    <2> QED
        BY <2>6, <2>7
<1> QED
    BY <1>4, <1>5

LEMMA FailsKeeps ==
    ASSUME ConfigureLeftAlone, BInv, ToolFails
    PROVE  BInv'
<1>1. /\ process' = "none" /\ result' \in {"cancelled", "failed"}
      /\ UNCHANGED <<options, askVars, virglVars, tree, stamp>>
    BY DEF ToolFails, Ended, Finished
<1>2. stamp = tree
    <2>1. isRunning /\ (Step = "configure" => process = "runs")
        BY DEF ToolFails, isRunning
    <2> QED
        BY <2>1 DEF BInv, StampFits, Written, ToolFails
<1> QED
    BY <1>1, <1>2, NothingRuns DEF BInv, BuildTypes, BuiltAsAsked, askVars, virglVars

(* Every step of a build keeps to what the build has left so far, as long   *)
(* as nobody stops configure.                                               *)
LEMMA StepBInv ==
    ASSUME ConfigureLeftAlone, BInv, [Next]_vars
    PROVE  BInv'
<1>1. CASE \E o \in Options : Start(o)
    BY <1>1, StartKeeps
<1>2. CASE Cancel
    <2>1. /\ Step # "configure" /\ Step' = Step /\ isRunning' = isRunning
          /\ UNCHANGED <<askVars, options, steps, process, result, builds, qemuVars, virglVars>>
        BY <1>2 DEF Cancel, Step, isRunning
    <2>2. StampFits'
        BY <2>1 DEF BInv, StampFits, Written, qemuVars
    <2>3. BuildTypes' /\ Building' /\ SourcesThere' /\ QemuThere' /\ StampTaken'
        BY <2>1 DEF BInv, BuildTypes, Building, SourcesThere, QemuThere, StampTaken, Past, Written,
                    Configured, askVars, qemuVars, virglVars
    <2>4. VirglThere'
        BY <2>1 DEF BInv, VirglThere, Past, NewestFor, Renderers, virglVars
    <2>5. BuiltAsAsked'
        BY <2>1 DEF BInv, BuiltAsAsked, NewestThatTakesThem, Renderers, qemuVars, virglVars
    <2> QED
        BY <2>2, <2>3, <2>4, <2>5 DEF BInv
<1>3. CASE ManagerQuits
    <2>1. /\ process' = "none" /\ result' = "none" /\ (isRunning => Step # "configure")
          /\ UNCHANGED <<askVars, options, builds, qemuVars, virglVars>>
        BY <1>3 DEF ManagerQuits
    <2>2. stamp = tree
        BY <2>1 DEF BInv, StampFits, Written
    <2> QED
        BY <2>1, <2>2, NothingRuns DEF BInv, BuildTypes, BuiltAsAsked, askVars, qemuVars, virglVars
<1>4. CASE ToolBegins
    BY <1>4, BeginsKeeps
<1>5. CASE ToolCompletes
    BY <1>5, CompletesKeeps
<1>6. CASE ToolSucceeds
    BY <1>6, SucceedsKeeps
<1>7. CASE ToolFails
    BY <1>7, FailsKeeps
<1>8. ASSUME virglUpstream' \in 0 .. MaxNews + 1, UNCHANGED <<runVars, qemuVars, virglVars>>
      PROVE  BInv'
    <2>1. Step' = Step /\ isRunning' = isRunning
        BY <1>8 DEF Step, isRunning, runVars
    <2>2. BuildTypes' /\ Building' /\ SourcesThere' /\ QemuThere' /\ StampTaken' /\ StampFits'
        BY <1>8, <2>1 DEF BInv, BuildTypes, Building, SourcesThere, QemuThere, StampTaken, StampFits,
                    Past, Written, Configured, runVars, qemuVars, virglVars
    <2>3. VirglThere'
        BY <1>8, <2>1 DEF BInv, VirglThere, Past, NewestFor, Renderers, runVars, virglVars
    <2>4. BuiltAsAsked'
        BY <1>8 DEF BInv, BuiltAsAsked, NewestThatTakesThem, Renderers, runVars, qemuVars, virglVars
    <2> QED
        BY <2>2, <2>3, <2>4 DEF BInv
<1>9. CASE (\E b \in Branches : News(b)) \/ VirglNews
    <2>1. virglUpstream' \in 0 .. MaxNews + 1
        BY <1>9, ConstantsAssumption DEF News, VirglNews, BInv, BuildTypes
    <2> QED
        BY <1>8, <1>9, <2>1 DEF News, VirglNews
<1>10. CASE UNCHANGED vars
    BY <1>8, <1>10 DEF vars, askVars, BInv, BuildTypes
<1> QED
    BY <1>1, <1>2, <1>3, <1>4, <1>5, <1>6, <1>7, <1>9, <1>10 DEF Next

LEMMA InitBInv == Init => BInv
<1> SUFFICES ASSUME Init PROVE BInv
    OBVIOUS
<1>1. virglUpstream \in 0 .. MaxNews + 1
    BY ConstantsAssumption DEF Init
<1>2. BuildTypes /\ Building
    BY <1>1 DEF Init, BuildTypes, Building, isRunning
<1>3. SourcesThere /\ VirglThere /\ QemuThere /\ StampFits /\ StampTaken /\ BuiltAsAsked
    BY DEF Init, SourcesThere, VirglThere, QemuThere, StampFits, StampTaken, BuiltAsAsked,
           Past, Written, isRunning
<1> QED
    BY <1>2, <1>3 DEF BInv

(* A build that ended well has compiled what was asked for, configured as   *)
(* asked, with the virglrenderer it should have, whatever earlier builds    *)
(* left behind; of configure it is assumed, as the run does, that it is not *)
(* stopped on its way (it writes build.ninja before it is known to have     *)
(* ended well).                                                             *)
THEOREM BuiltRight == ConfigureLeftAlone => (Spec => []BuiltAsAsked)
<1> SUFFICES ASSUME ConfigureLeftAlone
             PROVE  Spec => []BuiltAsAsked
    OBVIOUS
<1>1. Init => BInv
    BY InitBInv
<1>2. BInv /\ [Next]_vars => BInv'
    BY StepBInv
<1>3. BInv => BuiltAsAsked
    BY DEF BInv
<1> QED
    BY <1>1, <1>2, <1>3, PTL DEF Spec

-----------------------------------------------------------------------------
(* The argument for NothingTwice: without their stamp the sources of        *)
(* virglrenderer are not those of any goal, and when configure begins its   *)
(* stamp, which is what build.ninja is of, asks for something else.         *)

SourcesTold ==
    /\ patched \in Sources \cup {None}
    /\ patched = None => virglSrc \in {None, Half}

NotSkipped == Runs("configure") /\ process = "runs" => ~Skip

DInv == BInv /\ StampsTell /\ SourcesTold /\ NotSkipped

LEMMA GoalIsSources ==
    ASSUME virglFetched \in 0 .. MaxNews + 1, checkout.branch \in Branches
    PROVE  Goal \in Sources /\ Goal # None /\ Goal # Half
<1>1. Release \in 0 .. MaxNews + 1
    BY ConstantsAssumption DEF Release
<1>2. Goal \in Sources
    BY <1>1 DEF Goal, PatchGoal, Sources
<1> QED
    BY <1>2, NoneAssumption

LEMMA GoalAtPatch ==
    ASSUME BInv, Runs("virgl patch")
    PROVE  Goal \in Sources /\ Goal # None /\ Goal # Half
<1>1. options.virgl /\ options.branch \in Branches
    BY DEF BInv, Building, BuildTypes, Options, VirglParts, Runs
<1>2. checkout.branch = options.branch
    BY DEF BInv, SourcesThere, Past, Runs, VirglParts
<1>3. virglFetched \in 0 .. MaxNews + 1
    BY <1>1 DEF BInv, VirglThere, Past, Runs
<1> QED
    BY <1>1, <1>2, <1>3, GoalIsSources

(* Nothing but the patch step writes the sources and their stamp.           *)
LEMMA SourcesAlone ==
    ASSUME Begins \/ Completes, ~Runs("virgl patch"), isRunning
    PROVE  UNCHANGED <<virglSrc, patched>>
BY DEF Begins, Completes, Runs, virglVars

LEMMA SourcesToldKeeps ==
    ASSUME DInv, [Next]_vars
    PROVE  SourcesTold'
<1>1. CASE UNCHANGED <<virglSrc, patched>>
    BY <1>1 DEF DInv, SourcesTold
<1>2. CASE ToolBegins /\ Runs("virgl patch")
    <2>1. PatchBegins
        BY <1>2 DEF ToolBegins, Begins, Runs
    <2> QED
        BY <1>1, <2>1 DEF PatchBegins, SourcesTold
<1>3. CASE ToolCompletes /\ Runs("virgl patch")
    <2>1. patched' = Goal
        BY <1>3 DEF ToolCompletes, Completes, Runs
    <2> QED
        BY <1>3, <2>1, GoalAtPatch DEF DInv, SourcesTold
<1>4. ToolBegins \/ ToolCompletes => isRunning
    BY DEF ToolBegins, ToolCompletes, isRunning
<1>5. CASE ToolBegins \/ ToolCompletes
    BY <1>1, <1>2, <1>3, <1>4, <1>5, SourcesAlone DEF ToolBegins, ToolCompletes
<1> QED
    BY <1>1, <1>5
    DEF Next, Start, Cancel, ManagerQuits, ToolSucceeds, ToolFails, News, VirglNews, vars, virglVars

LEMMA NotSkippedKeeps ==
    ASSUME DInv, [Next]_vars
    PROVE  NotSkipped'
<1>1. CASE process' # "runs"
    BY <1>1 DEF NotSkipped
<1>2. CASE UNCHANGED <<steps, process, options, tree, stamp, patched>>
    BY <1>2 DEF DInv, NotSkipped, Runs, isRunning, Step, Skip, ConfigureStamp
<1>3. CASE \E o \in Options : Start(o)
    <2>1. PICK o \in Options : Start(o)
        BY <1>3
    <2>2. Step' \in {"clone", "fetch"}
        <3>1. o.virgl \in BOOLEAN /\ steps' = QemuSteps \o VirglSteps(o.virgl) \o <<"configure", "compile">>
            BY <2>1 DEF Options, Start
        <3> QED
            BY <3>1, PlanOfABuild DEF Step
    <2> QED
        BY <2>2 DEF NotSkipped, Runs
<1>4. CASE ToolSucceeds
    <2>1. CASE cancelled \/ Step = "compile"
        <3>1. process' = "none"
            <4>1. CASE cancelled
                BY <1>4, <4>1 DEF ToolSucceeds, Ended, Finished
            <4>2. CASE ~cancelled /\ Step = "compile"
                <5>1. RunNext /\ isRunning
                    BY <1>4, <4>2 DEF ToolSucceeds, Ended, isRunning
                <5>2. Tail(steps) = <<>> /\ ~(Len(steps) > 1)
                    BY <4>2, <5>1, PlanGoesOn DEF DInv, BInv, Building, Planned, Step
                <5> QED
                    BY <5>1, <5>2 DEF RunNext, Finished
            <4> QED
                BY <2>1, <4>1, <4>2
        <3> QED
            BY <1>1, <3>1
    <2>2. CASE ~cancelled /\ Step # "compile"
        <3>1. Step' = IF After(options.virgl, Step) = "configure" /\ Skip THEN "compile"
                      ELSE After(options.virgl, Step)
            BY <1>4, <2>2, NextStep DEF DInv
        <3> SUFFICES ASSUME Step' = "configure" PROVE ~Skip'
            BY DEF NotSkipped, Runs
        <3>2. ~Skip /\ After(options.virgl, Step) = "configure"
            BY <3>1
        <3>3. Step # "configure"
            BY <3>2 DEF After
        <3>4. UNCHANGED <<options, tree, stamp, patched>>
            BY <1>4, <2>2, <3>3 DEF ToolSucceeds, Ended, virglVars
        <3> QED
            BY <3>2, <3>4 DEF Skip, ConfigureStamp
    <2> QED
        BY <2>1, <2>2
<1>5. CASE ToolBegins \/ ToolCompletes \/ ToolFails \/ ManagerQuits
    BY <1>1, <1>5 DEF ToolBegins, ToolCompletes, ToolFails, ManagerQuits, Ended, Finished
<1>6. CASE Cancel \/ (\E b \in Branches : News(b)) \/ VirglNews \/ UNCHANGED vars
    BY <1>2, <1>6 DEF Cancel, News, VirglNews, vars, runVars, qemuVars, virglVars
<1> QED
    BY <1>3, <1>4, <1>5, <1>6 DEF Next

(* A configure that begins is for something build.ninja is not of.          *)
LEMMA ConfigureChanges ==
    ASSUME DInv, ToolBegins, Step = "configure"
    PROVE  tree' # tree
<1>1. process = "runs" /\ isRunning /\ tree' = Configured
    BY DEF ToolBegins, Begins, Runs, isRunning, Configured
<1>2. ~Skip /\ stamp = tree
    BY <1>1 DEF DInv, BInv, NotSkipped, Runs, StampFits, Written
<1>3. options.virgl => patched = installed
    BY <1>1 DEF DInv, BInv, VirglThere, Past
<1>4. Configured = ConfigureStamp
    BY <1>3 DEF Configured, ConfigureStamp
<1>5. Configured # None
    <2>1. options.args \in Args
        BY DEF DInv, BInv, BuildTypes, Options
    <2>2. patched \in Sources \cup {None}
        BY DEF DInv, SourcesTold
    <2>3. ConfigureStamp \in Stamps
        BY <2>1, <2>2 DEF ConfigureStamp, Stamps
    <2> QED
        BY <1>4, <2>3, NoneAssumption
<1> QED
    BY <1>1, <1>2, <1>4, <1>5 DEF Skip

(* Sources that are taken apart are not those that are asked for.           *)
LEMMA SourcesChange ==
    ASSUME DInv, [Next]_vars, virglSrc # Half, virglSrc' = Half
    PROVE  virglSrc # Goal
<1>1. (ToolBegins \/ ToolCompletes) /\ Runs("virgl patch")
    <2>1. ToolBegins \/ ToolCompletes
        BY DEF Next, Start, Cancel, ManagerQuits, ToolSucceeds, ToolFails, News, VirglNews, vars, virglVars
    <2>2. isRunning
        BY <2>1 DEF ToolBegins, ToolCompletes, isRunning
    <2> QED
        BY <2>1, <2>2, SourcesAlone DEF ToolBegins, ToolCompletes
<1>2. Goal \in Sources /\ Goal # None /\ Goal # Half
    BY <1>1, GoalAtPatch DEF DInv
<1>3. ToolBegins
    BY <1>1, <1>2 DEF ToolCompletes, Completes, Runs
<1>4. patched # Goal
    BY <1>1, <1>3 DEF ToolBegins, Begins, Runs, PatchBegins
<1> QED
    BY <1>2, <1>4 DEF DInv, StampsTell, SourcesTold

(* Whatever earlier builds left behind, also those that were stopped or     *)
(* that failed, a build does not do again what was done.                    *)
THEOREM NothingDoneTwice == ConfigureLeftAlone => (Spec => NothingTwice)
<1> SUFFICES ASSUME ConfigureLeftAlone
             PROVE  Spec => NothingTwice
    OBVIOUS
<1>1. Init => DInv
    BY InitBInv DEF Init, DInv, StampsTell, SourcesTold, NotSkipped, Runs, isRunning
<1>2. DInv /\ [Next]_vars /\ StampsTell' => DInv'
    BY StepBInv, SourcesToldKeeps, NotSkippedKeeps DEF DInv
<1>3. DInv /\ [Next]_vars =>
          [ /\ virglSrc # Half /\ virglSrc' = Half => virglSrc # Goal
            /\ ToolBegins /\ Step = "configure" => tree' # tree ]_vars
    BY SourcesChange, ConfigureChanges
<1> QED
    BY <1>1, <1>2, <1>3, StampsTrue, PTL DEF Spec, NothingTwice

================================================================================
