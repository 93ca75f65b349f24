--------------------------- MODULE VmSnapshotsProofs ---------------------------
(***************************************************************************)
(* Proofs about VmSnapshots, for every set of names and of conditions: no  *)
(* disk ever has two snapshots of one name, the list that is shown is that *)
(* of the disks, a snapshot is in all the disks or in none, and a restore  *)
(* takes all of them back to the same one.                                 *)
(*                                                                         *)
(* One inductive invariant carries them, SInv.  ListFits tells that what   *)
(* the user acts on is true of the disks; with it JobFits tells what each  *)
(* step of an action has done and left to do of the name it works on, and  *)
(* JobWhole, when nothing disturbs qemu-img, which disks have which take   *)
(* of it.  The order in which qemu-img gets to the disks is not needed.    *)
(***************************************************************************)
EXTENDS VmSnapshots, SequenceTheorems, WellFoundedInduction, TLAPS

Copies == [name : Names, take : Nat, vmstate : BOOLEAN]

Actions ==
    [step : {"none"} \cup QemuSteps \cup ImgSteps, name : Names \cup {""}, take : Nat,
     todo : SUBSET Disks, failed : BOOLEAN, queued : BOOLEAN, reply : ReplyKinds]

Listings ==
    [kind : {"query-block", "info"}, current : BOOLEAN, queued : BOOLEAN,
     behind : {"none"} \cup QemuSteps, images : Seq(Seq(Copies))]

VmTyped ==
    /\ conditions \in Conditions
    /\ state \in States /\ qmp \in {"none", "up", "failing", "lost"} /\ opened \in BOOLEAN
    /\ visible \in BOOLEAN /\ restored \in BOOLEAN

DisksTyped ==
    /\ disks \in [Disks -> Seq(Copies)]
    /\ point \in [Disks -> Nat]
    /\ takes \in Nat

JobTyped ==
    /\ job \in [Objects -> Actions]
    /\ \A o \in Objects : job[o].step # "none" => job[o].name \in Names

ListTyped ==
    /\ list \in [Names -> [files : SUBSET Disks, vmstate : BOOLEAN]]
    /\ listOk \in BOOLEAN
    /\ flight \subseteq Listings
    /\ \A l \in flight : Len(l.images) < conditions.disks

TypeOK == VmTyped /\ DisksTyped /\ JobTyped /\ ListTyped

(* The connection, the process and the state of the VM                      *)
VmFits ==
    /\ state = "Live" => qmp \in {"up", "failing"}
    /\ state = "Stopping" => qmp # "none"
    /\ qmp # "none" => opened /\ state \in {"Live", "Stopping"}

NoneLeft == KnowsTheList => ~Busy("left")

(* The takes that a disk has under a name                                   *)
Takes(copies, n) == {copies[i].take : i \in {k \in DOMAIN copies : copies[k].name = n}}

Single(copies) == \A i, j \in DOMAIN copies : copies[i].name = copies[j].name => i = j

AllSingle == KnowsTheList => \A d \in Disks : Single(disks[d])

(* What is listed is true, or will be when the listing under way has come.  *)
NoneCurrent == \A l \in flight : ~l.current

TrueSoFar(l) == \A i \in DOMAIN l.images : l.images[i] = disks[i]

ListFits ==
    KnowsTheList /\ ~Busy("shown") =>
        /\ \A l \in flight : l.current => TrueSoFar(l)
        /\ visible /\ state \notin {"Live", "Stopped"} => NoneCurrent /\ list = NoSnapshots
        /\ visible /\ listOk /\ NoneCurrent /\ state \in {"Live", "Stopped"} =>
               list = Merged(disks)

(* The name the action is about, while qemu-img works on it                 *)
JobFits ==
    LET j == job["shown"] IN
    KnowsTheList =>
        /\ j.step = "removals" => \A d \in Disks \ j.todo : ~Has(disks[d], j.name)
        /\ j.step = "creations" => \A d \in j.todo : ~Has(disks[d], j.name)

Whole(n) == \A d, e \in Disks : Takes(disks[d], n) = Takes(disks[e], n)

AtOnePoint == \A d, e \in Disks : point[d] = point[e]

(* The takes of the name of the action, disk by disk                        *)
Removing(j) ==
    /\ \A d \in j.todo : Takes(disks[d], j.name) # {}
    /\ \A d, e \in j.todo : Takes(disks[d], j.name) = Takes(disks[e], j.name)
    /\ \A d \in Disks \ j.todo : Takes(disks[d], j.name) = {}
    /\ opened => Whole(j.name)

Creating(j) ==
    /\ \A d \in j.todo : Takes(disks[d], j.name) = {}
    /\ \A d \in Disks \ j.todo : Takes(disks[d], j.name) = {j.take}
    /\ opened => Whole(j.name)

Undoing(j) ==
    /\ \A d \in Disks \ j.todo : Takes(disks[d], j.name) = {}
    /\ opened => \A d \in Disks : Takes(disks[d], j.name) = {}

Applying(j) ==
    /\ Whole(j.name)
    /\ \A d \in Disks \ j.todo : Takes(disks[d], j.name) = {point[d]}

JobWhole ==
    LET j == job["shown"] IN
    Undisturbed =>
        /\ \A n \in Names : j.step \notin ImgSteps \/ n # j.name => Whole(n)
        /\ j.step \in ImgSteps => state # "Starting" /\ j.todo # {}
        /\ j.step \in ImgSteps \ {"undo"} => ~j.failed
        /\ j.step = "undo" => j.failed
        /\ j.step \in {"removals", "deletions"} => Removing(j)
        /\ j.step = "creations" => Creating(j)
        /\ j.step = "undo" => Undoing(j)
        /\ j.step = "apply" => Applying(j)
        /\ j.step = "loadvm" /\ j.reply \notin {"none", "error"} => AtOnePoint
        /\ j.step \in {"loadvm", "apply"} => ~restored
        /\ restored => AtOnePoint

SInv ==
    /\ TypeOK /\ VmFits /\ NoneLeft /\ AllSingle /\ ListFits /\ JobFits /\ JobWhole
-----------------------------------------------------------------------------
(* About the snapshots of a disk                                            *)

LEMMA Least ==
    ASSUME NEW T \in SUBSET Nat, T # {}
    PROVE  \E x \in T : \A y \in T : x <= y
<1> DEFINE R == OpToRel(<, Nat)
<1>1. PICK x \in T : \A y \in T : ~(<<y, x>> \in R)
  BY NatLessThanWellFounded, WFMin, Zenon
<1>2. \A y \in T : <<y, x>> \in R <=> y < x
  BY <1>1 DEF OpToRel
<1>3. x \in Nat /\ \A y \in T : y \in Nat /\ ~(y < x)
  BY <1>1, <1>2
<1> HIDE DEF R
<1> QED
  BY <1>3

LEMMA RemoveAtFacts ==
    ASSUME NEW s \in Seq(Copies), NEW k \in 1 .. Len(s)
    PROVE  LET r == SeqExt!RemoveAt(s, k) IN
           /\ r \in Seq(Copies)
           /\ Len(r) = Len(s) - 1
           /\ \A i \in 1 .. Len(r) : r[i] = IF i < k THEN s[i] ELSE s[i + 1]
<1> DEFINE a == SubSeq(s, 1, k - 1)
           b == SubSeq(s, k + 1, Len(s))
<1>0. k \in Nat /\ Len(s) \in Nat /\ k >= 1 /\ k <= Len(s) /\ \A i \in 1 .. Len(s) : s[i] \in Copies
  BY ElementOfSeq, LenProperties
<1>1. /\ a \in Seq(Copies)
      /\ Len(a) = k - 1
      /\ \A i \in 1 .. k - 1 : a[i] = s[i]
  BY <1>0, SubSeqProperties
<1>2. /\ b \in Seq(Copies)
      /\ Len(b) = Len(s) - k
      /\ \A i \in 1 .. Len(s) - k : b[i] = s[k + i]
  <2>1. \A i \in k + 1 .. Len(s) : s[i] \in Copies
    BY <1>0
  <2>2. /\ b \in Seq(Copies)
        /\ Len(b) = IF k + 1 <= Len(s) THEN Len(s) - (k + 1) + 1 ELSE 0
        /\ \A i \in 1 .. Len(s) - (k + 1) + 1 : b[i] = s[k + 1 + i - 1]
    BY <2>1, <1>0, SubSeqProperties
  <2> QED
    BY <2>2, <1>0
<1> HIDE DEF a, b
<1>3. /\ a \o b \in Seq(Copies)
      /\ Len(a \o b) = Len(a) + Len(b)
      /\ \A i \in 1 .. Len(a) + Len(b) : (a \o b)[i] = IF i <= Len(a) THEN a[i] ELSE b[i - Len(a)]
  BY <1>1, <1>2, ConcatProperties
<1>4. Len(a \o b) = Len(s) - 1
  BY <1>0, <1>1, <1>2, <1>3
<1>5. ASSUME NEW i \in 1 .. Len(s) - 1
      PROVE  (a \o b)[i] = IF i < k THEN s[i] ELSE s[i + 1]
  <2>1. CASE i < k
    BY <2>1, <1>0, <1>1, <1>2, <1>3
  <2>2. CASE ~(i < k)
    <3>1. i - (k - 1) \in 1 .. Len(s) - k /\ k + (i - (k - 1)) = i + 1 /\ ~(i <= k - 1)
      BY <2>2, <1>0
    <3>2. (a \o b)[i] = b[i - (k - 1)]
      BY <3>1, <1>0, <1>1, <1>2, <1>3
    <3>3. b[i - (k - 1)] = s[k + (i - (k - 1))]
      BY <3>1, <1>2
    <3> QED
      BY <3>1, <3>2, <3>3, <2>2
  <2> QED
    BY <2>1, <2>2
<1>6. SeqExt!RemoveAt(s, k) = a \o b
  BY DEF SeqExt!RemoveAt, a, b
<1> QED
  BY <1>3, <1>4, <1>5, <1>6

(* A name that a disk has is one of those with a take                       *)
LEMMA HasTakes ==
    \A copies, n : Has(copies, n) <=> Takes(copies, n) # {}
BY DEF Has, Takes

LEMMA OneTake ==
    ASSUME NEW copies, Single(copies), NEW i \in DOMAIN copies
    PROVE  Takes(copies, copies[i].name) = {copies[i].take}
BY DEF Single, Takes

LEMMA AppendFacts ==
    ASSUME NEW s \in Seq(Copies), NEW c \in Copies
    PROVE  /\ Append(s, c) \in Seq(Copies)
           /\ \A n : Takes(Append(s, c), n) =
                     IF n = c.name THEN Takes(s, n) \cup {c.take} ELSE Takes(s, n)
           /\ Single(s) /\ ~Has(s, c.name) => Single(Append(s, c))
<1> DEFINE r == Append(s, c)
<1>1. /\ r \in Seq(Copies) /\ Len(s) \in Nat /\ Len(r) = Len(s) + 1
      /\ DOMAIN s = 1 .. Len(s) /\ DOMAIN r = 1 .. Len(s) + 1
      /\ \A i \in 1 .. Len(s) : r[i] = s[i]
      /\ r[Len(s) + 1] = c
  BY AppendProperties, LenProperties
<1>2. \A i \in DOMAIN r : i \in DOMAIN s \/ i = Len(s) + 1
  BY <1>1
<1>3. DOMAIN s \subseteq DOMAIN r /\ Len(s) + 1 \in DOMAIN r
  BY <1>1
<1> HIDE DEF r
<1>4. ASSUME NEW n
      PROVE  Takes(r, n) = IF n = c.name THEN Takes(s, n) \cup {c.take} ELSE Takes(s, n)
  BY <1>1, <1>2, <1>3 DEF Takes
<1>5. ASSUME Single(s), ~Has(s, c.name)
      PROVE  Single(r)
  BY <1>1, <1>2, <1>3, <1>5 DEF Single, Has
<1> QED
  BY <1>1, <1>4, <1>5 DEF r

LEMMA RemoveFacts ==
    ASSUME NEW s \in Seq(Copies), Single(s), NEW k \in DOMAIN s
    PROVE  LET r == SeqExt!RemoveAt(s, k) IN
           /\ Single(r)
           /\ \A n : Takes(r, n) = IF n = s[k].name THEN {} ELSE Takes(s, n)
<1> DEFINE r == SeqExt!RemoveAt(s, k)
           Old(i) == IF i < k THEN i ELSE i + 1
           New(i) == IF i < k THEN i ELSE i - 1
<1>1. DOMAIN s = 1 .. Len(s) /\ Len(s) \in Nat
  BY LenProperties
<1>2. /\ r \in Seq(Copies)
      /\ Len(r) = Len(s) - 1
      /\ \A i \in 1 .. Len(r) : r[i] = IF i < k THEN s[i] ELSE s[i + 1]
  BY <1>1, RemoveAtFacts
<1>3. DOMAIN r = 1 .. Len(s) - 1
  BY <1>2, LenProperties
<1> HIDE DEF r
<1>4. \A i \in DOMAIN r : Old(i) \in DOMAIN s /\ Old(i) # k /\ r[i] = s[Old(i)]
  BY <1>1, <1>2, <1>3
<1>5. \A i \in DOMAIN s \ {k} : New(i) \in DOMAIN r /\ r[New(i)] = s[i]
  BY <1>1, <1>2, <1>3
<1>6. \A i, j \in DOMAIN r : Old(i) = Old(j) => i = j
  BY <1>1, <1>3
<1> HIDE DEF Old, New
<1>7. Single(r)
  BY <1>4, <1>6 DEF Single
<1>8. ASSUME NEW n
      PROVE  Takes(r, n) = IF n = s[k].name THEN {} ELSE Takes(s, n)
  <2>1. CASE n = s[k].name
    BY <2>1, <1>4 DEF Takes, Single
  <2>2. CASE n # s[k].name
    BY <2>2, <1>4, <1>5 DEF Takes
  <2> QED
    BY <2>1, <2>2
<1> QED
  BY <1>7, <1>8 DEF r

LEMMA FirstFacts ==
    ASSUME NEW d, disks[d] \in Seq(Copies), NEW n, Has(disks[d], n)
    PROVE  FirstNamed(d, n) \in DOMAIN disks[d] /\ disks[d][FirstNamed(d, n)].name = n
<1> DEFINE T == {i \in DOMAIN disks[d] : disks[d][i].name = n}
<1>1. DOMAIN disks[d] = 1 .. Len(disks[d]) /\ Len(disks[d]) \in Nat
  BY LenProperties
<1>2. T \in SUBSET Nat /\ T # {}
  BY <1>1 DEF Has
<1> HIDE DEF T
<1>3. PICK first \in T : \A i \in T : first <= i
  BY <1>2, Least
<1>4. /\ first \in DOMAIN disks[d]
      /\ disks[d][first].name = n
      /\ \A j \in 1 .. first - 1 : disks[d][j].name # n
  BY <1>1, <1>3 DEF T
<1> QED
  BY <1>4 DEF FirstNamed

LEMMA WithoutFacts ==
    ASSUME NEW d, disks[d] \in Seq(Copies), NEW n
    PROVE  /\ Without(d, n) \in Seq(Copies)
           /\ Single(disks[d]) =>
                  /\ Single(Without(d, n))
                  /\ \A m : Takes(Without(d, n), m) =
                            IF m = n THEN {} ELSE Takes(disks[d], m)
<1> DEFINE k == FirstNamed(d, n)
<1>1. CASE Has(disks[d], n)
  <2>1. k \in DOMAIN disks[d] /\ disks[d][k].name = n
    BY <1>1, FirstFacts
  <2>2. k \in 1 .. Len(disks[d]) /\ Without(d, n) = SeqExt!RemoveAt(disks[d], k)
    BY <1>1, <2>1, LenProperties DEF Without
  <2> HIDE DEF k
  <2>3. Without(d, n) \in Seq(Copies)
    BY <2>2, RemoveAtFacts
  <2>4. ASSUME Single(disks[d])
        PROVE  /\ Single(Without(d, n))
               /\ \A m : Takes(Without(d, n), m) = IF m = n THEN {} ELSE Takes(disks[d], m)
    <3>1. /\ Single(SeqExt!RemoveAt(disks[d], k))
          /\ \A m : Takes(SeqExt!RemoveAt(disks[d], k), m) =
                    IF m = disks[d][k].name THEN {} ELSE Takes(disks[d], m)
      BY <2>1, <2>4, RemoveFacts
    <3> QED
      BY <3>1, <2>1, <2>2
  <2> QED
    BY <2>3, <2>4
<1>2. CASE ~Has(disks[d], n)
  BY <1>2, HasTakes DEF Without
<1> QED
  BY <1>1, <1>2

-----------------------------------------------------------------------------
(* Every step keeps the types.                                              *)

LEMMA DisksThere ==
    ASSUME conditions \in Conditions
    PROVE  conditions.disks \in Nat /\ conditions.disks > 0 /\ conditions.takes \in Nat
BY ConstantsAssumption

LEMMA MergedTyped ==
    ASSUME NEW images \in Seq(Seq(Copies)), NEW k \in Nat, Len(images) <= k
    PROVE  Merged(images) \in [Names -> [files : SUBSET (1 .. k), vmstate : BOOLEAN]]
<1>1. DOMAIN images \subseteq 1 .. k
  BY LenProperties
<1>2. ASSUME NEW n \in Names
      PROVE  Entry(n, images) \in [files : SUBSET (1 .. k), vmstate : BOOLEAN]
  <2>1. {d \in DOMAIN images : Has(images[d], n)} \subseteq 1 .. k
    BY <1>1
  <2>2. (\E d \in {d \in DOMAIN images : Has(images[d], n)} : WithState(images[d], n)) \in BOOLEAN
    OBVIOUS
  <2> QED
    BY <2>1, <2>2 DEF Entry
<1> QED
  BY <1>2 DEF Merged

LEMMA NoSnapshotsTyped ==
    \A S : NoSnapshots \in [Names -> [files : SUBSET S, vmstate : BOOLEAN]]
BY DEF NoSnapshots

(* The disks, in their order, are what a listing that is answered tells of. *)
LEMMA DisksAreImages ==
    ASSUME conditions \in Conditions, DisksTyped
    PROVE  disks \in Seq(Seq(Copies)) /\ Len(disks) = conditions.disks
<1>1. conditions.disks \in Nat /\ disks \in [1 .. conditions.disks -> Seq(Copies)]
  BY DisksThere DEF DisksTyped, Disks
<1> QED
  BY <1>1, IsASeq, LenProperties

LEMMA RefreshedTyped ==
    ASSUME conditions \in Conditions, conditions' = conditions,
           NEW stale \in SUBSET Listings, \A l \in stale : Len(l.images) < conditions.disks,
           NEW known \in [Names -> [files : SUBSET Disks, vmstate : BOOLEAN]],
           NEW ok \in BOOLEAN, Refreshed(stale, known, ok)
    PROVE  ListTyped'
<1>1. conditions.disks \in Nat /\ 0 < conditions.disks /\ Disks' = Disks
  BY DisksThere DEF Disks
<1>2. <<>> \in Seq(Seq(Copies)) /\ Len(<<>>) = 0
  BY EmptySeq
<1>3. QueryBlock \in Listings /\ Info \in Listings
  BY <1>2 DEF QueryBlock, Info, Listings, LeftCommand
<1>4. QueryBlock.images = <<>> /\ Info.images = <<>>
  BY DEF QueryBlock, Info
<1>5. NoSnapshots \in [Names -> [files : SUBSET Disks, vmstate : BOOLEAN]]
  BY NoSnapshotsTyped
<1>6. flight' \in {stale, stale \cup {QueryBlock}, stale \cup {Info}}
  BY DEF Refreshed
<1>7. list' \in {known, NoSnapshots} /\ listOk' \in {ok, TRUE}
  BY DEF Refreshed
<1>8. flight' \subseteq Listings /\ \A l \in flight' : Len(l.images) < conditions.disks
  BY <1>1, <1>2, <1>3, <1>4, <1>6
<1>9. list' \in [Names -> [files : SUBSET Disks, vmstate : BOOLEAN]] /\ listOk' \in BOOLEAN
  BY <1>5, <1>7
<1> QED
  BY <1>1, <1>8, <1>9 DEF ListTyped

LEMMA SupersededFacts ==
    ASSUME ListTyped
    PROVE  /\ Superseded \in SUBSET Listings
           /\ \A l \in Superseded : Len(l.images) < conditions.disks /\ ~l.current
<1>1. ASSUME NEW l \in flight
      PROVE  /\ [l EXCEPT !.current = FALSE] \in Listings
             /\ [l EXCEPT !.current = FALSE].images = l.images
             /\ [l EXCEPT !.current = FALSE].current = FALSE
             /\ Len(l.images) < conditions.disks
  BY DEF ListTyped, Listings
<1> QED
  BY <1>1 DEF Superseded

LEMMA RefreshTyped ==
    ASSUME conditions \in Conditions, conditions' = conditions, ListTyped, Refresh
    PROVE  ListTyped'
<1>1. /\ Superseded \in SUBSET Listings /\ \A l \in Superseded : Len(l.images) < conditions.disks
      /\ list \in [Names -> [files : SUBSET Disks, vmstate : BOOLEAN]] /\ listOk \in BOOLEAN
  BY SupersededFacts DEF ListTyped
<1>2. Refreshed(Superseded, list, listOk)
  BY DEF Refresh
<1> QED
  BY <1>1, <1>2, RefreshedTyped

LEMMA SameListTyped ==
    ASSUME conditions' = conditions, ListTyped, UNCHANGED listVars
    PROVE  ListTyped'
BY DEF ListTyped, listVars, Disks

LEMMA SameDisksTyped ==
    ASSUME conditions' = conditions, DisksTyped, UNCHANGED <<disks, point, takes>>
    PROVE  DisksTyped'
BY DEF DisksTyped, Disks

LEMMA SameJobTyped ==
    ASSUME conditions' = conditions, JobTyped, UNCHANGED job
    PROVE  JobTyped'
BY DEF JobTyped, Actions, Disks

(* What the start and the end of the VM change, and what they leave alone   *)
VmStep ==
    \/ VmStarts \/ QemuOpens \/ QemuFails \/ QemuRuns \/ QemuShutsDown
    \/ QmpCloses \/ QmpClosed \/ VmStops

LEMMA VmSteps ==
    ASSUME TypeOK, VmFits, VmStep
    PROVE  /\ UNCHANGED <<conditions, diskVars, takes, visible, job, restored>>
           /\ TypeOK' /\ VmFits'
           /\ StateChanged \/ UNCHANGED <<listVars, state>>
           /\ opened' => opened \/ state = "Starting"
           /\ state' = "Starting" => \/ state = "Starting"
                                     \/ conditions.startsIdle => \A o \in Objects : ~Busy(o)
<1>1. UNCHANGED <<conditions, diskVars, takes, visible, job, restored>>
  BY DEF VmStep, VmStarts, QemuOpens, QemuFails, QemuRuns, QemuShutsDown, QmpCloses, QmpClosed,
         VmStops, diskVars
<1>2. StateChanged \/ UNCHANGED <<listVars, state>>
  BY DEF VmStep, VmStarts, QemuOpens, QemuFails, QemuRuns, QemuShutsDown, QmpCloses, QmpClosed,
         VmStops, TypeOK, VmTyped
<1>3. /\ state' \in States /\ qmp' \in {"none", "up", "failing", "lost"} /\ opened' \in BOOLEAN
      /\ VmFits'
  BY DEF VmStep, VmStarts, QemuOpens, QemuFails, QemuRuns, QemuShutsDown, QmpCloses, QmpClosed,
         VmStops, TypeOK, VmTyped, VmFits, States
<1>4. opened' => opened \/ state = "Starting"
  BY DEF VmStep, VmStarts, QemuOpens, QemuFails, QemuRuns, QemuShutsDown, QmpCloses, QmpClosed,
         VmStops
<1>5. state' = "Starting" => \/ state = "Starting"
                             \/ conditions.startsIdle => \A o \in Objects : ~Busy(o)
  BY DEF VmStep, VmStarts, QemuOpens, QemuFails, QemuRuns, QemuShutsDown, QmpCloses, QmpClosed,
         VmStops
<1>6. ListTyped'
  <2>1. conditions \in Conditions /\ conditions' = conditions /\ ListTyped
    BY <1>1 DEF TypeOK, VmTyped
  <2>2. CASE visible /\ StateChanged
    BY <2>1, <2>2, RefreshTyped DEF StateChanged
  <2>3. CASE UNCHANGED listVars
    BY <2>1, <2>3, SameListTyped
  <2> QED
    BY <1>2, <2>2, <2>3 DEF StateChanged
<1>7. VmTyped' /\ DisksTyped' /\ JobTyped'
  BY <1>1, <1>3, SameDisksTyped, SameJobTyped DEF TypeOK, VmTyped, diskVars
<1> QED
  BY <1>1, <1>2, <1>3, <1>4, <1>5, <1>6, <1>7 DEF TypeOK

(* The answers to a listing                                                 *)
ListStep(l) == QueryBlockAnswered(l) \/ InfoTold(l) \/ ListingFails(l)

LEMMA ListedTyped ==
    ASSUME conditions \in Conditions, conditions' = conditions, ListTyped, NEW l \in flight,
           NEW new \in [Names -> [files : SUBSET Disks, vmstate : BOOLEAN]],
           NEW ok \in BOOLEAN, Listed(l, new, ok)
    PROVE  ListTyped'
BY DEF Listed, ListTyped, Disks

LEMMA ListedFits ==
    ASSUME ListFits, UNCHANGED <<conditions, state, disks, visible, job>>,
           NEW l \in flight, NEW new, NEW ok \in BOOLEAN, Listed(l, new, ok),
           KnowsTheList /\ ~Busy("shown") /\ l.current /\ ok => new = Merged(disks)
    PROVE  ListFits'
<1>0. SUFFICES ASSUME KnowsTheList, ~Busy("shown")
               PROVE  ListFits'
  BY DEF ListFits, KnowsTheList, Busy
<1>1. /\ \A m \in flight : m.current => TrueSoFar(m)
      /\ visible /\ state \notin {"Live", "Stopped"} => NoneCurrent /\ list = NoSnapshots
      /\ visible /\ listOk /\ NoneCurrent /\ state \in {"Live", "Stopped"} => list = Merged(disks)
  BY <1>0 DEF ListFits
<1>2. \A m \in flight' : m \in flight /\ (TrueSoFar(m) => TrueSoFar(m)')
  BY DEF Listed, TrueSoFar
<1>3. NoneCurrent' <=> \A m \in flight \ {l} : ~m.current
  BY DEF Listed, NoneCurrent
<1>4. NoneCurrent => NoneCurrent' /\ ~l.current
  BY <1>3 DEF NoneCurrent
<1>5. NoneCurrent' /\ ~l.current => NoneCurrent
  BY <1>3 DEF NoneCurrent
<1>6. CASE l.current
  BY <1>0, <1>1, <1>2, <1>4, <1>6 DEF ListFits, Listed, Wanted
<1>7. CASE ~l.current
  <2>1. list' = list /\ listOk' = listOk
    BY <1>7 DEF Listed, Wanted
  <2>2. Merged(disks)' = Merged(disks) /\ NoSnapshots' = NoSnapshots
    BY DEF Merged, Entry, NoSnapshots
  <2> QED
    BY <1>1, <1>2, <1>4, <1>5, <1>7, <2>1, <2>2 DEF ListFits
<1> QED
  BY <1>6, <1>7

LEMMA ListSteps ==
    ASSUME TypeOK, ListFits, NEW l \in flight, ListStep(l)
    PROVE  /\ UNCHANGED <<vmVars, diskVars, takes, visible, job, restored>>
           /\ TypeOK' /\ ListFits'
<1>1. UNCHANGED <<vmVars, diskVars, takes, visible, job, restored>>
  BY DEF ListStep, QueryBlockAnswered, InfoTold, ListingFails
<1>2. /\ conditions' = conditions /\ conditions \in Conditions /\ Disks' = Disks
      /\ UNCHANGED <<conditions, state, disks, visible, job>>
      /\ VmTyped' /\ DisksTyped' /\ JobTyped'
  BY <1>1, SameDisksTyped, SameJobTyped DEF TypeOK, VmTyped, vmVars, diskVars, Disks
<1>3. /\ conditions.disks \in Nat
      /\ disks \in Seq(Seq(Copies)) /\ Len(disks) = conditions.disks
      /\ l \in Listings /\ Len(l.images) < conditions.disks
  BY <1>2, DisksThere, DisksAreImages DEF TypeOK, ListTyped
<1>4. NoSnapshots \in [Names -> [files : SUBSET Disks, vmstate : BOOLEAN]]
  BY NoSnapshotsTyped
<1>5. CASE QueryBlockAnswered(l)
  <2>1. Merged(disks) \in [Names -> [files : SUBSET Disks, vmstate : BOOLEAN]]
    BY <1>3, MergedTyped DEF Disks
  <2>2. Listed(l, Merged(disks), TRUE)
    BY <1>5 DEF QueryBlockAnswered
  <2>3. ListTyped'
    BY <1>2, <2>1, <2>2, ListedTyped DEF TypeOK
  <2>4. ListFits'
    BY <1>2, <2>1, <2>2, ListedFits
  <2> QED
    BY <1>1, <1>2, <2>3, <2>4 DEF TypeOK
<1>6. CASE ListingFails(l)
  <2>1. Listed(l, NoSnapshots, FALSE)
    BY <1>6 DEF ListingFails
  <2>2. ListTyped'
    BY <1>2, <1>4, <2>1, ListedTyped DEF TypeOK
  <2>3. ListFits'
    BY <1>2, <2>1, ListedFits
  <2> QED
    BY <1>1, <1>2, <2>2, <2>3 DEF TypeOK
<1>7. CASE InfoTold(l)
  <2> DEFINE next   == disks[Len(l.images) + 1]
             images == Append(l.images, next)
  <2>1. /\ l.images \in Seq(Seq(Copies)) /\ Len(l.images) \in Nat
        /\ Len(l.images) + 1 \in Disks
    BY <1>3, LenProperties DEF Listings, Disks
  <2>2. next \in Seq(Copies)
    BY <2>1 DEF TypeOK, DisksTyped
  <2>3. /\ images \in Seq(Seq(Copies)) /\ Len(images) = Len(l.images) + 1
        /\ Len(images) <= conditions.disks
        /\ \A i \in 1 .. Len(l.images) : images[i] = l.images[i]
        /\ images[Len(l.images) + 1] = next
        /\ DOMAIN images = 1 .. Len(l.images) + 1 /\ DOMAIN l.images = 1 .. Len(l.images)
    BY <1>3, <2>1, <2>2, AppendProperties, LenProperties
  <2>4. l.current /\ KnowsTheList /\ ~Busy("shown") => \A i \in DOMAIN images : images[i] = disks[i]
    <3>1. l.current /\ KnowsTheList /\ ~Busy("shown") =>
              \A i \in 1 .. Len(l.images) : l.images[i] = disks[i]
      BY <2>3 DEF ListFits, TrueSoFar
    <3>2. \A i \in DOMAIN images : i \in 1 .. Len(l.images) \/ i = Len(l.images) + 1
      BY <2>1, <2>3
    <3> QED
      BY <2>3, <3>1, <3>2
  <2>5. Merged(images) \in [Names -> [files : SUBSET Disks, vmstate : BOOLEAN]]
    BY <1>3, <2>3, MergedTyped DEF Disks
  <2>6. \/ Listed(l, NoSnapshots, FALSE)
        \/ /\ ~Wanted(l) \/ Len(images) = conditions.disks
           /\ Listed(l, Merged(images), TRUE)
        \/ /\ Wanted(l) /\ Len(images) < conditions.disks
           /\ flight' = (flight \ {l}) \cup {[l EXCEPT !.images = images]}
           /\ UNCHANGED <<list, listOk>>
    BY <1>7 DEF InfoTold
  <2> HIDE DEF images, next
  <2>7. CASE Listed(l, NoSnapshots, FALSE)
    <3>1. ListTyped'
      BY <1>2, <1>4, <2>7, ListedTyped DEF TypeOK
    <3>2. ListFits'
      BY <1>2, <2>7, ListedFits
    <3> QED
      BY <1>1, <1>2, <3>1, <3>2 DEF TypeOK
  <2>8. CASE /\ ~Wanted(l) \/ Len(images) = conditions.disks
             /\ Listed(l, Merged(images), TRUE)
    <3>1. ListTyped'
      BY <1>2, <2>5, <2>8, ListedTyped DEF TypeOK
    <3>2. ASSUME l.current, KnowsTheList, ~Busy("shown")
          PROVE  images = disks
      <4>1. Len(images) = Len(disks)
        BY <1>3, <2>8, <3>2 DEF Wanted
      <4>2. \A i \in 1 .. Len(images) : images[i] = disks[i]
        BY <2>3, <2>4, <3>2
      <4> QED
        BY <1>3, <2>3, <4>1, <4>2, SeqEqual
    <3>3. ListFits'
      BY <1>2, <2>8, <3>2, ListedFits
    <3> QED
      BY <1>1, <1>2, <3>1, <3>3 DEF TypeOK
  <2>9. CASE /\ Wanted(l) /\ Len(images) < conditions.disks
             /\ flight' = (flight \ {l}) \cup {[l EXCEPT !.images = images]}
             /\ UNCHANGED <<list, listOk>>
    <3> DEFINE m == [l EXCEPT !.images = images]
    <3>1. m \in Listings /\ m.images = images /\ m.current = l.current /\ l.current
      BY <1>3, <2>3, <2>9 DEF Listings, Wanted
    <3>2. ListTyped'
      BY <1>2, <2>9, <3>1 DEF TypeOK, ListTyped
    <3>3. flight' = (flight \ {l}) \cup {m}
      BY <2>9
    <3> HIDE DEF m
    <3>4. ~NoneCurrent /\ ~NoneCurrent'
      BY <3>1, <3>3 DEF NoneCurrent
    <3>5. ASSUME KnowsTheList, ~Busy("shown"), NEW k \in flight', k.current
          PROVE  TrueSoFar(k)'
      <4>1. TrueSoFar(k)' <=> TrueSoFar(k)
        BY <1>2 DEF TrueSoFar
      <4>2. CASE k = m
        BY <2>4, <3>1, <3>5, <4>1, <4>2 DEF TrueSoFar
      <4>3. CASE k \in flight
        BY <3>5, <4>1, <4>3 DEF ListFits
      <4> QED
        BY <3>3, <4>2, <4>3
    <3>6. KnowsTheList /\ ~Busy("shown") => ~(visible /\ state \notin {"Live", "Stopped"})
      BY <3>4 DEF ListFits
    <3>7. ListFits'
      BY <1>2, <3>4, <3>5, <3>6 DEF ListFits, KnowsTheList, Busy
    <3> QED
      BY <1>1, <1>2, <3>2, <3>7 DEF TypeOK
  <2> QED
    BY <2>6, <2>7, <2>8, <2>9
<1> QED
  BY <1>5, <1>6, <1>7 DEF ListStep

(* A refresh() starts from what is true.                                    *)
LEMMA RefreshFits ==
    ASSUME ListTyped, Refresh
    PROVE  ListFits'
<1>1. \A l \in Superseded : ~l.current
  BY SupersededFacts
<1>2. QueryBlock.current /\ Info.current /\ QueryBlock.images = <<>> /\ Info.images = <<>>
  BY DEF QueryBlock, Info
<1>3. \A l \in {QueryBlock, Info} : TrueSoFar(l)'
  <2>1. DOMAIN <<>> = {}
    BY EmptySeq, LenProperties
  <2> QED
    BY <1>2, <2>1 DEF TrueSoFar
<1>4. NoSnapshots' = NoSnapshots
  BY DEF NoSnapshots
<1>5. \/ state' \in {"Live", "Stopped"} /\ ~NoneCurrent'
      \/ state' \notin {"Live", "Stopped"} /\ NoneCurrent' /\ list' = NoSnapshots
  BY <1>1, <1>2 DEF Refresh, Refreshed, NoneCurrent
<1>6. \A l \in flight' : l.current => l \in {QueryBlock, Info}
  BY <1>1 DEF Refresh, Refreshed
<1> QED
  BY <1>3, <1>4, <1>5, <1>6 DEF ListFits

(* Actions of the view are of the types                                     *)
LEMMA ExecuteTyped ==
    ASSUME NEW step \in QemuSteps, NEW n \in Names, NEW t \in Nat
    PROVE  /\ Execute(step, n, t) \in Actions
           /\ Execute(step, n, t).step = step /\ Execute(step, n, t).name = n
           /\ Execute(step, n, t).take = t /\ Execute(step, n, t).reply = "none"
BY DEF Execute, Idle, Actions, ReplyKinds

LEMMA RunTyped ==
    ASSUME NEW step \in ImgSteps, NEW n \in Names, NEW t \in Nat, NEW todo \in SUBSET Disks
    PROVE  /\ Run(step, n, t, todo) \in Actions
           /\ Run(step, n, t, todo).step = step /\ Run(step, n, t, todo).name = n
           /\ Run(step, n, t, todo).take = t /\ Run(step, n, t, todo).todo = todo
           /\ Run(step, n, t, todo).failed = FALSE
BY DEF Run, Idle, Actions, ReplyKinds

LEMMA IdleTyped == Idle \in Actions /\ Idle.step = "none"
BY DEF Idle, Actions, ReplyKinds

LEMMA ActionTyped ==
    ASSUME conditions' = conditions, JobTyped, NEW o \in Objects, NEW next \in Actions,
           next.step # "none" => next.name \in Names, job' = [job EXCEPT ![o] = next]
    PROVE  JobTyped' /\ job'[o] = next /\ \A other \in Objects \ {o} : job'[other] = job[other]
BY DEF JobTyped, Actions, Disks

LEMMA FinishFacts ==
    ASSUME TypeOK, conditions' = conditions, NEW o \in Objects, NEW failed \in BOOLEAN,
           Finish(o, failed)
    PROVE  /\ JobTyped' /\ ListTyped' /\ restored' \in BOOLEAN
           /\ job'[o] = Idle /\ \A other \in Objects \ {o} : job'[other] = job[other]
           /\ o = "shown" => ListFits'
<1>1. JobTyped' /\ job'[o] = Idle /\ \A other \in Objects \ {o} : job'[other] = job[other]
  BY IdleTyped, ActionTyped DEF Finish, TypeOK
<1>2. ListTyped'
  BY RefreshTyped, SameListTyped DEF Finish, TypeOK, VmTyped
<1>3. restored' \in BOOLEAN
  BY DEF Finish, TypeOK, VmTyped
<1>4. o = "shown" => ListFits'
  BY RefreshFits DEF Finish, TypeOK
<1> QED
  BY <1>1, <1>2, <1>3, <1>4

LEMMA GoesOnFacts ==
    ASSUME TypeOK, conditions' = conditions, NEW o \in Objects, NEW next \in Actions,
           next.step # "none", next.name \in Names, GoesOn(o, next)
    PROVE  /\ JobTyped' /\ ListTyped' /\ restored' \in BOOLEAN
           /\ job'[o] = next /\ \A other \in Objects \ {o} : job'[other] = job[other]
           /\ UNCHANGED <<listVars, restored>>
<1>1. job' = [job EXCEPT ![o] = next] /\ UNCHANGED <<listVars, restored>>
  BY DEF GoesOn
<1>2. JobTyped' /\ job'[o] = next /\ \A other \in Objects \ {o} : job'[other] = job[other]
  BY <1>1, ActionTyped DEF TypeOK
<1>3. ListTyped' /\ restored' \in BOOLEAN
  BY <1>1, SameListTyped DEF TypeOK, VmTyped
<1> QED
  BY <1>1, <1>2, <1>3

(* An answer over QMP, or that there will be none                           *)
AnswerStep(o) == QmpAnswers(o) \/ JobFails(o)

QmpChain == {"savevm", "query-block", "replace"}

LEMMA AnsweredFacts ==
    ASSUME TypeOK, NEW o \in Objects, AnswerStep(o)
    PROVE  /\ UNCHANGED <<vmVars, diskVars, takes, visible>>
           /\ job[o].step \in QemuSteps /\ job[o].name \in Names
           /\ \/ \E failed \in BOOLEAN :
                    /\ Finish(o, failed)
                    /\ ~failed /\ job[o].step = "loadvm" => job[o].reply \notin {"none", "error"}
              \/ \E step \in QmpChain \cup {"transaction"} :
                    /\ job[o].step \in QmpChain
                    /\ GoesOn(o, Execute(step, job[o].name, job[o].take))
<1>1. UNCHANGED <<vmVars, diskVars, takes, visible>>
  BY DEF AnswerStep, QmpAnswers, JobFails
<1>2. PICK reply \in ReplyKinds :
          /\ Answered(o, reply)
          /\ reply # "error" => reply = job[o].reply /\ reply # "none"
  <2>1. job[o].reply \in ReplyKinds
    BY DEF TypeOK, JobTyped, Actions
  <2> QED
    BY <2>1 DEF AnswerStep, QmpAnswers, JobFails, ReplyKinds
<1>3. job[o].step \in QemuSteps
  BY <1>2 DEF Answered, Awaits, QemuSteps
<1>4. job[o].name \in Names
  BY <1>3 DEF TypeOK, JobTyped, QemuSteps
<1>5. CASE job[o].step = "savevm"
  BY <1>1, <1>2, <1>3, <1>4, <1>5 DEF Answered, Awaits, QmpChain
<1>6. CASE job[o].step = "query-block"
  BY <1>1, <1>2, <1>3, <1>4, <1>6 DEF Answered, Awaits, QmpChain, EndDisks
<1>7. CASE job[o].step = "replace"
  BY <1>1, <1>2, <1>3, <1>4, <1>7 DEF Answered, Awaits, QmpChain, EndDisks
<1>8. CASE job[o].step \in {"transaction", "loadvm", "delvm"}
  <2>1. Finish(o, reply = "error")
    BY <1>2, <1>8 DEF Answered, Awaits
  <2> QED
    BY <1>1, <1>2, <1>3, <1>4, <2>1
<1> QED
  BY <1>3, <1>5, <1>6, <1>7, <1>8 DEF QemuSteps

LEMMA AnswerSteps ==
    ASSUME TypeOK, NEW o \in Objects, AnswerStep(o)
    PROVE  /\ TypeOK'
           /\ \A other \in Objects \ {o} : job'[other] = job[other]
           /\ o = "shown" => ListFits'
<1>0. /\ UNCHANGED <<vmVars, diskVars, takes, visible>> /\ conditions' = conditions
      /\ job[o].name \in Names /\ job[o].take \in Nat
  BY AnsweredFacts DEF vmVars, TypeOK, JobTyped, Actions
<1>1. DisksTyped' /\ (restored' \in BOOLEAN => VmTyped')
  BY <1>0, SameDisksTyped DEF TypeOK, VmTyped, vmVars, diskVars
<1>2. CASE \E failed \in BOOLEAN : Finish(o, failed)
  <2>1. PICK failed \in BOOLEAN : Finish(o, failed)
    BY <1>2
  <2> QED
    BY <1>0, <1>1, <2>1, FinishFacts DEF TypeOK
<1>3. CASE \E step \in QmpChain \cup {"transaction"} :
              GoesOn(o, Execute(step, job[o].name, job[o].take))
  <2>1. PICK step \in QemuSteps : GoesOn(o, Execute(step, job[o].name, job[o].take))
    BY <1>3 DEF QmpChain, QemuSteps
  <2> DEFINE next == Execute(step, job[o].name, job[o].take)
  <2>2. next \in Actions /\ next.step = step /\ next.name \in Names /\ step # "none"
    BY <1>0, ExecuteTyped DEF QemuSteps
  <2> HIDE DEF next
  <2>3. GoesOn(o, next)
    BY <2>1 DEF next
  <2>4. /\ JobTyped' /\ ListTyped' /\ restored' \in BOOLEAN /\ job'[o] = next
        /\ \A other \in Objects \ {o} : job'[other] = job[other]
    BY <1>0, <2>2, <2>3, GoesOnFacts
  <2>5. job'[o] # Idle
    BY <2>2, <2>4, IdleTyped
  <2> QED
    BY <1>1, <2>4, <2>5 DEF TypeOK, ListFits, Busy
<1> QED
  BY <1>2, <1>3, AnsweredFacts

(* An action the user begins                                                *)
BeginStep == \E n \in Names : Take(n) \/ Restore(n) \/ Remove(n)

Begun(n, next) ==
    \/ state = "Live" /\ next.step \in {"savevm", "loadvm", "delvm"}
    \/ state = "Stopped" /\ next.step = "creations" /\ list[n].files = {} /\ next.todo = Disks
    \/ /\ state = "Stopped" /\ next.step \in {"removals", "apply", "deletions"}
       /\ list[n].files # {} /\ next.todo = list[n].files

LEMMA BeginSteps ==
    ASSUME TypeOK, BeginStep
    PROVE  /\ MayAct /\ TypeOK'
           /\ UNCHANGED <<vmVars, diskVars, visible, listVars>>
           /\ \E n \in Names, next \in Actions :
                 /\ Begun(n, next)
                 /\ next.name = n /\ next.reply = "none" /\ next.failed = FALSE
                 /\ job'["shown"] = next /\ job'["left"] = job["left"]
                 /\ restored' = (restored /\ next.step \notin {"loadvm", "apply"})
<1>1. PICK n \in Names : Take(n) \/ Restore(n) \/ Remove(n)
  BY DEF BeginStep
<1>2. /\ MayAct /\ UNCHANGED <<vmVars, diskVars, visible, listVars>>
      /\ conditions' = conditions
  BY <1>1 DEF Take, Restore, Remove, Begins, vmVars
<1>3. takes' \in Nat
  BY <1>1 DEF Take, Restore, Remove, TypeOK, DisksTyped
<1>4. /\ list[n].files \in SUBSET Disks /\ Disks \in SUBSET Disks
      /\ state \in {"Live", "Stopped"}
  BY <1>2 DEF TypeOK, ListTyped, MayAct
<1>5. PICK next \in Actions :
          /\ Begun(n, next)
          /\ next.name = n /\ next.reply = "none" /\ next.failed = FALSE
          /\ next.step # "none"
          /\ job' = [job EXCEPT !["shown"] = next]
          /\ restored' = (restored /\ next.step \notin {"loadvm", "apply"})
  <2>1. \A step \in {"savevm", "loadvm", "delvm"}, t \in Nat :
            /\ Execute(step, n, t) \in Actions
            /\ Execute(step, n, t).step = step /\ Execute(step, n, t).name = n
            /\ Execute(step, n, t).reply = "none" /\ Execute(step, n, t).failed = FALSE
    BY ZenonT(40) DEF Execute, Idle, Actions, ReplyKinds, QemuSteps
  <2>2. \A step \in {"removals", "creations", "apply", "deletions"}, t \in Nat, todo \in SUBSET Disks :
            /\ Run(step, n, t, todo) \in Actions
            /\ Run(step, n, t, todo).step = step /\ Run(step, n, t, todo).name = n
            /\ Run(step, n, t, todo).todo = todo
            /\ Run(step, n, t, todo).reply = "none" /\ Run(step, n, t, todo).failed = FALSE
    <3> SUFFICES ASSUME NEW step \in {"removals", "creations", "apply", "deletions"},
                        NEW t \in Nat, NEW todo \in SUBSET Disks
                 PROVE  /\ Run(step, n, t, todo) \in Actions
                        /\ Run(step, n, t, todo).step = step /\ Run(step, n, t, todo).name = n
                        /\ Run(step, n, t, todo).todo = todo
                        /\ Run(step, n, t, todo).reply = "none"
                        /\ Run(step, n, t, todo).failed = FALSE
      OBVIOUS
    <3>1. step \in ImgSteps
      BY DEF ImgSteps
    <3>2. Run(step, n, t, todo).reply = "none"
      BY DEF Run, Idle
    <3>3. /\ Run(step, n, t, todo) \in Actions
          /\ Run(step, n, t, todo).step = step /\ Run(step, n, t, todo).name = n
          /\ Run(step, n, t, todo).todo = todo /\ Run(step, n, t, todo).failed = FALSE
      BY <3>1 DEF Run, Idle, Actions, ReplyKinds
    <3> QED
      BY <3>2, <3>3
  <2>3. CASE Take(n)
    <3>1. /\ job' = [job EXCEPT !["shown"] = IF state = "Live" THEN Execute("savevm", n, takes')
                                             ELSE RunTake(n, takes')]
          /\ restored' = restored
      BY <2>3 DEF Take, Begins
    <3>2. CASE state = "Live"
      BY <3>1, <3>2, <2>1, <1>3 DEF Begun, TypeOK, VmTyped
    <3>3. CASE state = "Stopped" /\ list[n].files = {}
      <4>1. job' = [job EXCEPT !["shown"] = Run("creations", n, takes', Disks)]
        BY <3>1, <3>3 DEF RunTake, Removals
      <4> QED
        <5> DEFINE next == Run("creations", n, takes', Disks)
        <5>1. /\ next \in Actions /\ next.step = "creations" /\ next.name = n
              /\ next.todo = Disks /\ next.reply = "none" /\ next.failed = FALSE
          BY <2>2, <1>3, <1>4
        <5>2. job' = [job EXCEPT !["shown"] = next]
          BY <4>1
        <5> HIDE DEF next
        <5> QED
          BY <3>1, <3>3, <5>1, <5>2 DEF Begun, TypeOK, VmTyped
    <3>4. CASE state = "Stopped" /\ list[n].files # {}
      <4>1. job' = [job EXCEPT !["shown"] = Run("removals", n, takes', list[n].files)]
        BY <3>1, <3>4 DEF RunTake, Removals
      <4> QED
        <5> DEFINE next == Run("removals", n, takes', list[n].files)
        <5>1. /\ next \in Actions /\ next.step = "removals" /\ next.name = n
              /\ next.todo = list[n].files /\ next.reply = "none" /\ next.failed = FALSE
          BY <2>2, <1>3, <1>4
        <5>2. job' = [job EXCEPT !["shown"] = next]
          BY <4>1
        <5> HIDE DEF next
        <5> QED
          BY <3>1, <3>4, <5>1, <5>2 DEF Begun, TypeOK, VmTyped
    <3> QED
      BY <1>4, <3>2, <3>3, <3>4
  <2>4. CASE Restore(n)
    <3>1. /\ job' = [job EXCEPT !["shown"] = IF state = "Live" THEN Execute("loadvm", n, 0)
                                             ELSE Run("apply", n, 0, list[n].files)]
          /\ restored' = FALSE /\ list[n].files # {}
      BY <2>4 DEF Restore, Begins
    <3>2. CASE state = "Live"
      BY <3>1, <3>2, <2>1 DEF Begun
    <3>3. CASE state = "Stopped"
      <4> DEFINE next == Run("apply", n, 0, list[n].files)
      <4>1. /\ next \in Actions /\ next.step = "apply" /\ next.name = n
            /\ next.todo = list[n].files /\ next.reply = "none" /\ next.failed = FALSE
        BY <2>2, <1>4
      <4>2. job' = [job EXCEPT !["shown"] = next]
        BY <3>1, <3>3
      <4> HIDE DEF next
      <4> QED
        BY <3>1, <3>3, <4>1, <4>2 DEF Begun
    <3> QED
      BY <1>4, <3>2, <3>3
  <2>5. CASE Remove(n)
    <3>1. /\ job' = [job EXCEPT !["shown"] = IF state = "Live" THEN Execute("delvm", n, 0)
                                             ELSE Run("deletions", n, 0, list[n].files)]
          /\ restored' = restored /\ list[n].files # {}
      BY <2>5 DEF Remove, Begins
    <3>2. CASE state = "Live"
      BY <3>1, <3>2, <2>1 DEF Begun, TypeOK, VmTyped
    <3>3. CASE state = "Stopped"
      <4> DEFINE next == Run("deletions", n, 0, list[n].files)
      <4>1. /\ next \in Actions /\ next.step = "deletions" /\ next.name = n
            /\ next.todo = list[n].files /\ next.reply = "none" /\ next.failed = FALSE
        BY <2>2, <1>4
      <4>2. job' = [job EXCEPT !["shown"] = next]
        BY <3>1, <3>3
      <4> HIDE DEF next
      <4> QED
        BY <3>1, <3>3, <4>1, <4>2 DEF Begun, TypeOK, VmTyped
    <3> QED
      BY <1>4, <3>2, <3>3
  <2> QED
    BY <1>1, <2>3, <2>4, <2>5
<1>6. JobTyped' /\ job'["shown"] = next /\ job'["left"] = job["left"]
  BY <1>2, <1>5, ActionTyped DEF TypeOK, Objects
<1>7. VmTyped' /\ DisksTyped' /\ ListTyped'
  <2>1. restored' \in BOOLEAN
    BY <1>5 DEF TypeOK, VmTyped
  <2> QED
    BY <1>2, <1>3, <2>1, SameListTyped DEF TypeOK, VmTyped, DisksTyped, Disks, vmVars, diskVars
<1> QED
  BY <1>2, <1>5, <1>6, <1>7 DEF TypeOK

(* What QEMU does with the disks                                            *)
LEMMA CopyTyped ==
    ASSUME JobTyped, NEW o \in Objects, job[o].step # "none", NEW b \in BOOLEAN
    PROVE  Copy(o, b) \in Copies /\ Copy(o, b).name = job[o].name /\ Copy(o, b).take = job[o].take
BY DEF Copy, Copies, JobTyped, Actions

LEMMA FirstTake ==
    ASSUME DisksTyped, NEW d \in Disks, NEW n, Has(disks[d], n)
    PROVE  /\ disks[d][FirstNamed(d, n)].take \in Nat
           /\ Single(disks[d]) => Takes(disks[d], n) = {disks[d][FirstNamed(d, n)].take}
<1>1. disks[d] \in Seq(Copies)
  BY DEF DisksTyped
<1>2. FirstNamed(d, n) \in DOMAIN disks[d] /\ disks[d][FirstNamed(d, n)].name = n
  BY <1>1, FirstFacts
<1>3. disks[d][FirstNamed(d, n)] \in Copies
  BY <1>1, <1>2, ElementOfSeq, LenProperties
<1> QED
  BY <1>2, <1>3, OneTake DEF Copies

LEMMA ServeSteps ==
    ASSUME TypeOK, NEW o \in Objects, QemuServes(o)
    PROVE  /\ TypeOK'
           /\ UNCHANGED <<vmVars, takes, visible, listVars, restored>>
           /\ job[o].step \in QemuSteps /\ job[o].name \in Names
           /\ job'[o].step = job[o].step /\ job'[o].name = job[o].name
           /\ \A other \in Objects \ {o} : job'[other] = job[other]
<1>0. UNCHANGED <<vmVars, takes, visible, listVars, restored>> /\ conditions' = conditions
  BY DEF QemuServes, vmVars
<1>1. job[o].step \in QemuSteps
  BY DEF QemuServes, QemuSaves, QemuTellsBlocks, QemuDeletes, QemuTransacts, QemuLoads, Awaits,
         QemuSteps
<1>2. job[o] \in Actions /\ job[o].name \in Names /\ job[o].step # "none"
  BY <1>1 DEF QemuSteps, TypeOK, JobTyped
<1>3. PICK r \in ReplyKinds : Replies(o, r)
  BY DEF QemuServes, QemuSaves, QemuTellsBlocks, QemuDeletes, QemuTransacts, QemuLoads, ReplyKinds
<1> DEFINE next == [job[o] EXCEPT !.reply = r]
<1>4. next \in Actions /\ next.step = job[o].step /\ next.name = job[o].name
  BY <1>2 DEF Actions
<1>5. job' = [job EXCEPT ![o] = next]
  BY <1>3 DEF Replies, TypeOK, JobTyped
<1> HIDE DEF next
<1>6. JobTyped' /\ job'[o] = next /\ \A other \in Objects \ {o} : job'[other] = job[other]
  BY <1>0, <1>2, <1>4, <1>5, ActionTyped DEF TypeOK
<1>7. DisksTyped'
  <2>1. \A d \in Disks : /\ disks[d] \in Seq(Copies)
                         /\ Without(d, job[o].name) \in Seq(Copies)
                         /\ \A b \in BOOLEAN :
                               /\ Append(disks[d], Copy(o, b)) \in Seq(Copies)
                               /\ Append(Without(d, job[o].name), Copy(o, b)) \in Seq(Copies)
    <3>1. ASSUME NEW d \in Disks, NEW b \in BOOLEAN
          PROVE  /\ disks[d] \in Seq(Copies) /\ Without(d, job[o].name) \in Seq(Copies)
                 /\ Append(disks[d], Copy(o, b)) \in Seq(Copies)
                 /\ Append(Without(d, job[o].name), Copy(o, b)) \in Seq(Copies)
      <4>1. disks[d] \in Seq(Copies) /\ Copy(o, b) \in Copies
        BY <1>2, CopyTyped DEF TypeOK, DisksTyped
      <4>2. Without(d, job[o].name) \in Seq(Copies)
        BY <4>1, WithoutFacts
      <4> QED
        BY <4>1, <4>2, AppendFacts
    <3> QED
      BY <3>1
  <2>2. disks' \in [Disks -> Seq(Copies)]
    BY <2>1 DEF QemuServes, QemuSaves, QemuTellsBlocks, QemuDeletes, QemuTransacts, QemuLoads,
                diskVars, TypeOK, DisksTyped
  <2>3. point' \in [Disks -> Nat]
    BY FirstTake DEF QemuServes, QemuSaves, QemuTellsBlocks, QemuDeletes, QemuTransacts, QemuLoads,
                     diskVars, TypeOK, DisksTyped
  <2> QED
    BY <1>0, <2>2, <2>3 DEF DisksTyped, Disks, TypeOK
<1>8. VmTyped' /\ ListTyped'
  BY <1>0, SameListTyped DEF TypeOK, VmTyped, vmVars
<1> QED
  BY <1>0, <1>1, <1>2, <1>4, <1>6, <1>7, <1>8 DEF TypeOK

(* What qemu-img does with one disk, and what runAll() makes of it          *)
Goes(o, d, failed) ==
    LET j == job[o] IN
    \/ /\ j.todo # {d} /\ (failed => j.step = "undo")
       /\ GoesOn(o, [j EXCEPT !.todo = @ \ {d}, !.failed = failed \/ @])
    \/ /\ j.todo = {d} /\ j.step = "removals" /\ ~failed /\ ~j.failed
       /\ GoesOn(o, Run("creations", j.name, j.take, Disks))
    \/ /\ j.step = "creations" /\ (failed \/ j.failed)
       /\ GoesOn(o, [Run("undo", j.name, j.take, Disks) EXCEPT !.failed = TRUE])
    \/ /\ j.todo = {d} \/ (failed /\ j.step # "undo")
       /\ j.step = "removals" => failed \/ j.failed
       /\ j.step = "creations" => ~failed /\ ~j.failed
       /\ Finish(o, failed \/ j.failed)

LEMMA DoneGoes ==
    ASSUME TypeOK, NEW o \in Objects, job[o].step \in ImgSteps, NEW d \in job[o].todo,
           NEW failed \in BOOLEAN, Done(o, d, failed)
    PROVE  Goes(o, d, failed)
<1>1. job[o].failed \in BOOLEAN
  BY DEF TypeOK, JobTyped, Actions
<1>2. CASE job[o].todo = {d} \/ (failed /\ job[o].step # "undo")
  <2>1. Ran(o, failed \/ job[o].failed)
    BY <1>2 DEF Done, Awaits
  <2>2. CASE job[o].step = "removals"
    BY <1>1, <1>2, <2>1, <2>2 DEF Ran, Awaits, Goes
  <2>3. CASE job[o].step = "creations"
    BY <1>1, <1>2, <2>1, <2>3 DEF Ran, Awaits, Goes
  <2>4. CASE job[o].step \in {"undo", "apply", "deletions"}
    BY <1>1, <1>2, <2>1, <2>4 DEF Ran, Awaits, Goes
  <2> QED
    BY <2>2, <2>3, <2>4 DEF ImgSteps
<1>3. CASE ~(job[o].todo = {d} \/ (failed /\ job[o].step # "undo"))
  BY <1>3 DEF Done, Awaits, Goes
<1> QED
  BY <1>2, <1>3

Worked(o, d) == ImgWorks(o, d) /\ ImgDoes(o, d) /\ Goes(o, d, FALSE)

Broke(o, d) ==
    /\ ~ImgWorks(o, d) \/ Op[job[o].step] \in conditions.breaks
    /\ UNCHANGED diskVars
    /\ Goes(o, d, TRUE)

LEMMA ImgFacts ==
    ASSUME TypeOK, NEW o \in Objects, ImgEnds(o)
    PROVE  /\ UNCHANGED <<vmVars, takes, visible>>
           /\ job[o].step \in ImgSteps /\ job[o].name \in Names
           /\ \E d \in job[o].todo : Worked(o, d) \/ Broke(o, d)
<1>1. UNCHANGED <<vmVars, takes, visible>> /\ job[o].step \in ImgSteps
  BY DEF ImgEnds
<1>2. job[o].name \in Names
  BY <1>1 DEF TypeOK, JobTyped, ImgSteps
<1>3. PICK d \in job[o].todo :
          \/ ImgWorks(o, d) /\ ImgDoes(o, d) /\ Done(o, d, FALSE)
          \/ /\ ~ImgWorks(o, d) \/ Op[job[o].step] \in conditions.breaks
             /\ UNCHANGED diskVars
             /\ Done(o, d, TRUE)
  BY DEF ImgEnds
<1>4. Worked(o, d) \/ Broke(o, d)
  BY <1>1, <1>3, DoneGoes DEF Worked, Broke
<1> QED
  BY <1>1, <1>2, <1>4

LEMMA OpFacts ==
    ASSUME NEW step \in ImgSteps
    PROVE  /\ Op[step] = "-c" <=> step = "creations"
           /\ Op[step] = "-a" <=> step = "apply"
           /\ Op[step] = "-d" <=> step \in {"removals", "undo", "deletions"}
BY DEF Op, ImgSteps

(* The effect on the disks                                                  *)
LEMMA ImgDoesFacts ==
    ASSUME TypeOK, NEW o \in Objects, job[o].step \in ImgSteps, NEW d \in job[o].todo,
           ImgWorks(o, d), ImgDoes(o, d)
    PROVE  LET n == job[o].name IN
           /\ d \in Disks /\ ~opened
           /\ disks' \in [Disks -> Seq(Copies)] /\ point' \in [Disks -> Nat]
           /\ \A e \in Disks \ {d} : disks'[e] = disks[e] /\ point'[e] = point[e]
           /\ \/ /\ job[o].step = "creations"
                 /\ disks'[d] = Append(disks[d], Copy(o, FALSE)) /\ point' = point
              \/ /\ job[o].step \in {"removals", "undo", "deletions"}
                 /\ disks'[d] = Without(d, n) /\ point' = point
              \/ /\ job[o].step = "apply" /\ Has(disks[d], n) /\ disks' = disks
                 /\ point'[d] = disks[d][FirstNamed(d, n)].take
<1> DEFINE n == job[o].name
<1>1. d \in Disks /\ ~opened
  BY DEF TypeOK, JobTyped, Actions, ImgWorks
<1>2. disks \in [Disks -> Seq(Copies)] /\ point \in [Disks -> Nat] /\ disks[d] \in Seq(Copies)
  BY <1>1 DEF TypeOK, DisksTyped
<1>3. CASE job[o].step = "creations"
  <2>1. Append(disks[d], Copy(o, FALSE)) \in Seq(Copies)
    <3>1. Copy(o, FALSE) \in Copies
      BY <1>3, CopyTyped DEF TypeOK
    <3> QED
      BY <1>2, <3>1, AppendFacts
  <2>2. disks' = [disks EXCEPT ![d] = Append(@, Copy(o, FALSE))] /\ point' = point
    BY <1>3, OpFacts DEF ImgDoes
  <2> QED
    BY <1>1, <1>2, <1>3, <2>1, <2>2
<1>4. CASE job[o].step \in {"removals", "undo", "deletions"}
  <2>1. Without(d, n) \in Seq(Copies)
    BY <1>2, WithoutFacts
  <2>2. disks' = [disks EXCEPT ![d] = Without(d, n)] /\ point' = point
    BY <1>4, OpFacts DEF ImgDoes
  <2> QED
    BY <1>1, <1>2, <1>4, <2>1, <2>2
<1>5. CASE job[o].step = "apply"
  <2>1. Has(disks[d], n)
    BY <1>5, OpFacts DEF ImgWorks
  <2>2. disks[d][FirstNamed(d, n)].take \in Nat
    BY <1>1, <2>1, FirstTake DEF TypeOK
  <2>3. point' = [point EXCEPT ![d] = disks[d][FirstNamed(d, n)].take] /\ disks' = disks
    BY <1>5, OpFacts DEF ImgDoes
  <2> QED
    BY <1>1, <1>2, <1>5, <2>1, <2>2, <2>3
<1> QED
  BY <1>3, <1>4, <1>5 DEF ImgSteps

LEMMA WorkSteps ==
    ASSUME TypeOK, NEW o \in Objects, ImgEnds(o)
    PROVE  /\ TypeOK'
           /\ \A other \in Objects \ {o} : job'[other] = job[other]
           /\ o = "shown" => ListFits'
<1>0. /\ UNCHANGED <<vmVars, takes, visible>> /\ conditions' = conditions /\ Disks' = Disks
      /\ job[o].step \in ImgSteps /\ job[o].name \in Names /\ job[o].take \in Nat
      /\ job[o] \in Actions /\ Disks \in SUBSET Disks
  BY ImgFacts DEF vmVars, TypeOK, JobTyped, Actions, Disks
<1>1. PICK d \in job[o].todo, failed \in BOOLEAN :
          /\ Goes(o, d, failed)
          /\ UNCHANGED diskVars \/ (ImgWorks(o, d) /\ ImgDoes(o, d))
  BY ImgFacts DEF Worked, Broke
<1>2. DisksTyped'
  BY <1>0, <1>1, ImgDoesFacts, SameDisksTyped DEF TypeOK, DisksTyped, diskVars
<1>3. restored' \in BOOLEAN => VmTyped'
  BY <1>0 DEF TypeOK, VmTyped, vmVars
<1> DEFINE f    == failed \/ job[o].failed
           on   == [job[o] EXCEPT !.todo = @ \ {d}, !.failed = failed \/ @]
           made == Run("creations", job[o].name, job[o].take, Disks)
           undo == [Run("undo", job[o].name, job[o].take, Disks) EXCEPT !.failed = TRUE]
<1>4. \A next \in {on, made, undo} :
          next \in Actions /\ next.step # "none" /\ next.name \in Names
  <2>1. on \in Actions /\ on.step = job[o].step /\ on.name = job[o].name
    BY <1>0 DEF Actions
  <2>2. made \in Actions /\ made.step = "creations" /\ made.name = job[o].name
    BY <1>0 DEF Run, Idle, Actions, ReplyKinds, ImgSteps
  <2>3. undo \in Actions /\ undo.step = "undo" /\ undo.name = job[o].name
    BY <1>0 DEF Run, Idle, Actions, ReplyKinds, ImgSteps
  <2> QED
    BY <1>0, <2>1, <2>2, <2>3 DEF ImgSteps
<1>5. f \in BOOLEAN
  BY <1>0 DEF Actions
<1>6. Finish(o, f) \/ \E next \in {on, made, undo} : GoesOn(o, next)
  BY <1>1 DEF Goes
<1> HIDE DEF f, on, made, undo
<1>7. CASE Finish(o, f)
  BY <1>0, <1>2, <1>3, <1>5, <1>7, FinishFacts DEF TypeOK
<1>8. CASE \E next \in {on, made, undo} : GoesOn(o, next)
  <2>1. PICK next \in {on, made, undo} : GoesOn(o, next)
    BY <1>8
  <2>2. next \in Actions /\ next.step # "none" /\ next.name \in Names
    BY <1>4
  <2>3. /\ JobTyped' /\ ListTyped' /\ restored' \in BOOLEAN /\ job'[o] = next
        /\ \A other \in Objects \ {o} : job'[other] = job[other]
    BY <1>0, <2>1, <2>2, GoesOnFacts
  <2>4. job'[o] # Idle
    BY <2>2, <2>3, IdleTyped
  <2> QED
    BY <1>2, <1>3, <2>3, <2>4 DEF TypeOK, ListFits, Busy
<1> QED
  BY <1>6, <1>7, <1>8

(* The view is shown, hidden and given another VM                           *)
LEMMA ShowSteps ==
    ASSUME TypeOK, ListFits, Show \/ Hide
    PROVE  TypeOK' /\ ListFits' /\ UNCHANGED <<vmVars, diskVars, takes, job, restored>>
<1>1. /\ UNCHANGED <<vmVars, diskVars, takes, job, restored>> /\ conditions' = conditions
      /\ visible' \in BOOLEAN
      /\ \/ UNCHANGED listVars /\ (Busy("shown") \/ ~visible')
         \/ Refresh
  BY DEF Show, Hide, vmVars
<1>2. ListTyped'
  BY <1>1, RefreshTyped, SameListTyped DEF TypeOK, VmTyped
<1>3. VmTyped' /\ DisksTyped' /\ JobTyped'
  BY <1>1, SameDisksTyped, SameJobTyped DEF TypeOK, VmTyped, vmVars, diskVars
<1>4. CASE Refresh
  BY <1>1, <1>2, <1>3, <1>4, RefreshFits DEF TypeOK
<1>5. CASE UNCHANGED listVars /\ (Busy("shown") \/ ~visible')
  <2>1. UNCHANGED <<conditions, disks, job, list, listOk, flight>>
    BY <1>1, <1>5 DEF listVars, diskVars
  <2>2. (\A l \in flight : l.current => TrueSoFar(l)) => \A l \in flight' : l.current => TrueSoFar(l)'
    BY <2>1 DEF TrueSoFar
  <2>3. ListFits'
    BY <1>5, <2>1, <2>2 DEF ListFits, Busy, KnowsTheList
  <2> QED
    BY <1>1, <1>2, <1>3, <2>3 DEF TypeOK
<1> QED
  BY <1>1, <1>4, <1>5

LEMMA ReselectSteps ==
    ASSUME TypeOK, Reselect
    PROVE  /\ TypeOK' /\ conditions.reselects
           /\ UNCHANGED <<vmVars, diskVars, takes, visible, restored>>
<1>1. /\ UNCHANGED <<vmVars, diskVars, takes, visible, restored>> /\ conditions' = conditions
      /\ conditions.reselects
  BY DEF Reselect, vmVars
<1>2. JobTyped'
  <2>1. job' \in [Objects -> Actions]
        /\ \A o \in Objects : job'[o] \in {job["shown"], job["left"], Idle}
    BY IdleTyped DEF Reselect, TypeOK, JobTyped, Objects
  <2> QED
    BY <1>1, <2>1, IdleTyped DEF TypeOK, JobTyped, Objects, Actions, Disks
<1>3. ListTyped'
  <2>1. NoSnapshots \in [Names -> [files : SUBSET Disks, vmstate : BOOLEAN]]
    BY NoSnapshotsTyped
  <2>2. CASE Refreshed({}, NoSnapshots, FALSE)
    BY <1>1, <2>1, <2>2, RefreshedTyped DEF TypeOK, VmTyped
  <2>3. CASE flight' = {} /\ list' = NoSnapshots /\ listOk' = FALSE
    BY <1>1, <2>1, <2>3 DEF ListTyped, Disks
  <2> QED
    BY <2>2, <2>3 DEF Reselect
<1>4. VmTyped' /\ DisksTyped'
  BY <1>1, SameDisksTyped DEF TypeOK, VmTyped, vmVars, diskVars
<1> QED
  BY <1>1, <1>2, <1>3, <1>4 DEF TypeOK

-----------------------------------------------------------------------------
(* Every step keeps the invariant.                                          *)

LEMMA NextCases ==
    ASSUME Next
    PROVE  \/ BeginStep \/ VmStep \/ Show \/ Hide \/ Reselect
           \/ \E o \in Objects : QemuServes(o) \/ ImgEnds(o) \/ AnswerStep(o)
           \/ \E l \in flight : ListStep(l)
BY DEF Next, UserNext, QemuNext, HandlerNext, BeginStep, VmStep, AnswerStep, ListStep

(* There is nothing to tell of an action that is not under way.             *)
LEMMA NotBusy == \A o \in Objects : ~Busy(o) => job[o].step = "none"
BY IdleTyped DEF Busy

LEMMA OnlyShown ==
    ASSUME NoneLeft, KnowsTheList, NEW o \in Objects, job[o].step \in QemuSteps \cup ImgSteps
    PROVE  o = "shown"
BY NotBusy DEF NoneLeft, Objects, QemuSteps, ImgSteps

LEMMA Unaffected ==
    ASSUME SInv, UNCHANGED <<conditions, disks, point, job, restored>>,
           opened' => opened \/ state = "Starting",
           state' = "Starting" => \/ state = "Starting"
                                  \/ conditions.startsIdle => \A o \in Objects : ~Busy(o)
    PROVE  NoneLeft' /\ AllSingle' /\ JobFits' /\ JobWhole'
<1> DEFINE j == job["shown"]
<1>1. NoneLeft' /\ AllSingle' /\ JobFits'
  BY DEF SInv, NoneLeft, AllSingle, JobFits, KnowsTheList, Busy, Disks, Single, Has
<1>2. /\ Undisturbed' = Undisturbed /\ job' = job /\ Disks' = Disks /\ restored' = restored
      /\ disks' = disks /\ point' = point
      /\ \A n : Whole(n)' <=> Whole(n)
      /\ AtOnePoint' <=> AtOnePoint
  BY DEF Undisturbed, KnowsTheList, Disks, Whole, Takes, AtOnePoint
<1>3. ASSUME Undisturbed
      PROVE  JobWhole'
  <2>1. j.step \in ImgSteps => state # "Starting" /\ (opened' => opened) /\ state' # "Starting"
    BY <1>3, NotBusy DEF SInv, JobWhole, Undisturbed, Objects, ImgSteps
  <2>2. /\ j.step \in {"removals", "deletions"} /\ Removing(j) => Removing(j)'
        /\ j.step = "creations" /\ Creating(j) => Creating(j)'
        /\ j.step = "undo" /\ Undoing(j) => Undoing(j)'
        /\ Applying(j) => Applying(j)'
    BY <1>2, <2>1 DEF Removing, Creating, Undoing, Applying, ImgSteps
  <2> QED
    BY <1>2, <1>3, <2>1, <2>2 DEF SInv, JobWhole
<1>4. ASSUME ~Undisturbed
      PROVE  JobWhole'
  BY <1>2, <1>4 DEF JobWhole
<1> QED
  BY <1>1, <1>3, <1>4

LEMMA StepVm ==
    ASSUME SInv, VmStep
    PROVE  SInv'
<1>1. /\ UNCHANGED <<conditions, diskVars, takes, visible, job, restored>>
      /\ TypeOK' /\ VmFits'
      /\ StateChanged \/ UNCHANGED <<listVars, state>>
      /\ opened' => opened \/ state = "Starting"
      /\ state' = "Starting" => \/ state = "Starting"
                                \/ conditions.startsIdle => \A o \in Objects : ~Busy(o)
  BY VmSteps DEF SInv
<1>2. NoneLeft' /\ AllSingle' /\ JobFits' /\ JobWhole'
  BY <1>1, Unaffected DEF diskVars
<1>3. ListFits'
  <2>1. CASE visible /\ StateChanged
    BY <2>1, RefreshFits DEF StateChanged, SInv, TypeOK
  <2>2. CASE UNCHANGED listVars /\ (~visible \/ state' = state)
    <3>1. UNCHANGED <<conditions, disks, visible, job, list, listOk, flight>>
      BY <1>1, <2>2 DEF listVars, diskVars
    <3>2. (\A l \in flight : l.current => TrueSoFar(l)) => \A l \in flight' : l.current => TrueSoFar(l)'
      BY <3>1 DEF TrueSoFar
    <3>3. NoSnapshots' = NoSnapshots /\ Merged(disks)' = Merged(disks) /\ NoneCurrent' = NoneCurrent
      BY <3>1 DEF NoSnapshots, Merged, Entry, Has, WithState, NoneCurrent
    <3> QED
      BY <2>2, <3>1, <3>2, <3>3 DEF SInv, ListFits, Busy, KnowsTheList
  <2> QED
    BY <1>1, <2>1, <2>2 DEF StateChanged
<1> QED
  BY <1>1, <1>2, <1>3 DEF SInv

LEMMA StepList ==
    ASSUME SInv, NEW l \in flight, ListStep(l)
    PROVE  SInv'
<1>1. /\ UNCHANGED <<vmVars, diskVars, takes, visible, job, restored>>
      /\ TypeOK' /\ ListFits'
  BY ListSteps DEF SInv
<1>2. NoneLeft' /\ AllSingle' /\ JobFits' /\ JobWhole' /\ VmFits'
  BY <1>1, Unaffected DEF diskVars, vmVars, SInv, VmFits
<1> QED
  BY <1>1, <1>2 DEF SInv

LEMMA StepShow ==
    ASSUME SInv, Show \/ Hide
    PROVE  SInv'
<1>1. /\ UNCHANGED <<vmVars, diskVars, takes, job, restored>>
      /\ TypeOK' /\ ListFits'
  BY ShowSteps DEF SInv
<1>2. NoneLeft' /\ AllSingle' /\ JobFits' /\ JobWhole' /\ VmFits'
  BY <1>1, Unaffected DEF diskVars, vmVars, SInv, VmFits
<1> QED
  BY <1>1, <1>2 DEF SInv

LEMMA StepReselect ==
    ASSUME SInv, Reselect
    PROVE  SInv'
<1>1. /\ UNCHANGED <<vmVars, diskVars, takes, visible, restored>>
      /\ TypeOK' /\ conditions.reselects
  BY ReselectSteps DEF SInv
<1>2. ~KnowsTheList' /\ ~Undisturbed'
  BY <1>1 DEF KnowsTheList, Undisturbed, vmVars
<1>3. VmFits'
  BY <1>1 DEF SInv, VmFits, vmVars
<1> QED
  BY <1>1, <1>2, <1>3 DEF SInv, NoneLeft, AllSingle, ListFits, JobFits, JobWhole

LEMMA NewNotIdle ==
    ASSUME JobTyped', job'["shown"].step # "none"
    PROVE  ListFits'
BY IdleTyped DEF ListFits, Busy

LEMMA NoneUnderWay ==
    ASSUME SInv, Undisturbed, job["shown"].step \notin ImgSteps
    PROVE  \A n \in Names : Whole(n)
BY DEF SInv, JobWhole

LEMMA StepBegin ==
    ASSUME SInv, BeginStep
    PROVE  SInv'
<1>1. /\ MayAct /\ TypeOK'
      /\ UNCHANGED <<vmVars, diskVars, visible, listVars>>
  BY BeginSteps DEF SInv
<1>2. PICK n \in Names, next \in Actions :
          /\ Begun(n, next)
          /\ next.name = n /\ next.reply = "none" /\ next.failed = FALSE
          /\ job'["shown"] = next /\ job'["left"] = job["left"]
          /\ restored' = (restored /\ next.step \notin {"loadvm", "apply"})
  BY BeginSteps DEF SInv
<1>3. UNCHANGED <<conditions, state, qmp, opened, disks, point, visible, list>> /\ Disks' = Disks
  BY <1>1 DEF vmVars, diskVars, listVars, Disks
<1>4. VmFits' /\ NoneLeft' /\ AllSingle'
  BY <1>2, <1>3 DEF SInv, VmFits, NoneLeft, AllSingle, Busy, KnowsTheList, Disks, Single
<1>5. ListFits'
  BY <1>1, <1>2, NewNotIdle DEF TypeOK, Begun
<1>6. ASSUME KnowsTheList
      PROVE  \A d \in Disks : d \in list[n].files <=> Takes(disks[d], n) # {}
  <2>1. visible /\ listOk /\ NoneCurrent /\ ~Busy("shown") /\ state \in {"Live", "Stopped"}
    BY <1>1, <1>6 DEF MayAct, KnowsTheList, NoneCurrent
  <2>2. list = Merged(disks)
    BY <1>6, <2>1 DEF SInv, ListFits
  <2>3. DOMAIN disks = Disks
    BY DEF SInv, TypeOK, DisksTyped
  <2>4. list[n].files = {d \in Disks : Has(disks[d], n)}
    BY <2>2, <2>3 DEF Merged, Entry
  <2> QED
    BY <2>4, HasTakes
<1>7. JobFits'
  <2>1. ASSUME KnowsTheList
        PROVE  /\ next.step = "removals" => \A d \in Disks \ next.todo : ~Has(disks[d], n)
               /\ next.step = "creations" => \A d \in next.todo : ~Has(disks[d], n)
    BY <1>2, <1>6, <2>1, HasTakes DEF Begun
  <2> QED
    BY <1>2, <1>3, <2>1 DEF JobFits, KnowsTheList
<1>8. JobWhole'
  <2>0. SUFFICES ASSUME Undisturbed
                 PROVE  JobWhole'
    BY <1>3 DEF JobWhole, Undisturbed, KnowsTheList
  <2>1. \A m \in Names : Whole(m)
    <3>1. ~Busy("shown")
      BY <1>1 DEF MayAct
    <3>2. job["shown"].step \notin ImgSteps
      BY <3>1, NotBusy DEF Objects, ImgSteps
    <3> QED
      BY <2>0, <3>2, NoneUnderWay
  <2>2. /\ list[n].files # {} => \A d \in Disks : Takes(disks[d], n) # {}
        /\ list[n].files = {} => \A d \in Disks : Takes(disks[d], n) = {}
        /\ list[n].files \subseteq Disks
    <3>1. list[n].files \subseteq Disks
      BY DEF SInv, TypeOK, ListTyped
    <3>2. \A d, e \in Disks : Takes(disks[d], n) = Takes(disks[e], n)
      BY <2>1 DEF Whole
    <3> QED
      BY <1>6, <2>0, <3>1, <3>2 DEF Undisturbed
  <2>3. list[n].files # {} => list[n].files = Disks
    BY <1>6, <2>0, <2>2 DEF Undisturbed
  <2>4. \A m : Whole(m)' <=> Whole(m)
    BY <1>3 DEF Whole, Takes
  <2>5. Disks # {}
    BY DisksThere DEF SInv, TypeOK, VmTyped, Disks
  <2>6. next.step \in ImgSteps => next.todo = Disks /\ state' # "Starting" /\ next.todo # {}
    BY <1>2, <1>3, <2>3, <2>5 DEF Begun, ImgSteps
  <2>7. next.step \in {"removals", "deletions"} => Removing(next)'
    BY <1>2, <1>3, <2>1, <2>2, <2>4, <2>6 DEF Begun, Removing, ImgSteps, Whole
  <2>8. next.step = "creations" => Creating(next)'
    BY <1>2, <1>3, <2>1, <2>2, <2>4, <2>6 DEF Begun, Creating, ImgSteps, Whole
  <2>9. next.step # "undo" /\ (next.step = "apply" => Applying(next)')
    BY <1>2, <1>3, <2>1, <2>4, <2>6 DEF Begun, Applying, ImgSteps
  <2>10. restored' => AtOnePoint'
    BY <1>2, <1>3, <2>0 DEF SInv, JobWhole, AtOnePoint
  <2> QED
    BY <1>2, <1>3, <2>1, <2>4, <2>6, <2>7, <2>8, <2>9, <2>10 DEF JobWhole, ImgSteps
<1> QED
  BY <1>1, <1>4, <1>5, <1>7, <1>8 DEF SInv

LEMMA StepAnswer ==
    ASSUME SInv, NEW o \in Objects, AnswerStep(o)
    PROVE  SInv'
<1>1. /\ TypeOK'
      /\ \A other \in Objects \ {o} : job'[other] = job[other]
      /\ o = "shown" => ListFits'
  BY AnswerSteps DEF SInv
<1>2. /\ UNCHANGED <<conditions, state, qmp, opened, disks, point>> /\ Disks' = Disks
      /\ job[o].step \in QemuSteps /\ job[o].name \in Names /\ job[o].take \in Nat
  BY AnsweredFacts DEF SInv, vmVars, diskVars, Disks, TypeOK, JobTyped, Actions
<1>3. \/ \E failed \in BOOLEAN :
            /\ Finish(o, failed)
            /\ ~failed /\ job[o].step = "loadvm" => job[o].reply \notin {"none", "error"}
      \/ \E step \in QmpChain \cup {"transaction"} :
            /\ job[o].step \in QmpChain
            /\ GoesOn(o, Execute(step, job[o].name, job[o].take))
  BY AnsweredFacts DEF SInv
<1>4. job'[o].step \notin ImgSteps \cup {"loadvm"}
  <2>1. CASE \E failed \in BOOLEAN : Finish(o, failed)
    BY <1>2, <2>1, FinishFacts, IdleTyped DEF SInv, ImgSteps
  <2>2. CASE \E step \in QmpChain \cup {"transaction"} :
                GoesOn(o, Execute(step, job[o].name, job[o].take))
    <3>1. PICK step \in QmpChain \cup {"transaction"} :
              GoesOn(o, Execute(step, job[o].name, job[o].take))
      BY <2>2
    <3>2. job'[o] = Execute(step, job[o].name, job[o].take)
      BY <3>1 DEF GoesOn, SInv, TypeOK, JobTyped
    <3>3. job'[o].step = step
      BY <3>2 DEF Execute, Idle
    <3> QED
      BY <3>1, <3>3 DEF QmpChain, ImgSteps
  <2> QED
    BY <1>3, <2>1, <2>2
<1>5. ASSUME KnowsTheList
      PROVE  o = "shown"
  BY <1>2, <1>5, OnlyShown DEF SInv
<1>6. VmFits' /\ AllSingle' /\ KnowsTheList' = KnowsTheList /\ Undisturbed' = Undisturbed
  BY <1>2 DEF SInv, VmFits, AllSingle, Single, KnowsTheList, Undisturbed, Disks
<1>7. NoneLeft'
  BY <1>1, <1>5, <1>6 DEF SInv, NoneLeft, Busy, Objects
<1>8. ListFits'
  BY <1>1, <1>5, <1>6 DEF ListFits
<1>9. JobFits'
  BY <1>4, <1>5, <1>6 DEF JobFits, ImgSteps
<1>10. JobWhole'
  <2>0. SUFFICES ASSUME Undisturbed
                 PROVE  JobWhole'
    BY <1>6 DEF JobWhole
  <2>1. o = "shown"
    BY <1>5, <2>0 DEF Undisturbed
  <2>2. \A n \in Names : Whole(n)'
    <3>1. \A n : Whole(n)' <=> Whole(n)
      BY <1>2 DEF Whole, Takes
    <3>2. job["shown"].step \notin ImgSteps
      BY <1>2, <2>1 DEF QemuSteps, ImgSteps
    <3> QED
      BY <2>0, <3>1, <3>2, NoneUnderWay
  <2>3. restored' => AtOnePoint'
    <3>1. AtOnePoint' <=> AtOnePoint
      BY <1>2 DEF AtOnePoint
    <3>2. /\ restored => AtOnePoint
          /\ job["shown"].step = "loadvm" /\ job["shown"].reply \notin {"none", "error"} => AtOnePoint
      BY <2>0 DEF SInv, JobWhole
    <3>3. CASE \E failed \in BOOLEAN :
                  /\ Finish(o, failed)
                  /\ ~failed /\ job[o].step = "loadvm" => job[o].reply \notin {"none", "error"}
      BY <1>2, <2>1, <3>1, <3>2, <3>3 DEF Finish, QemuSteps
    <3>4. CASE restored' = restored
      BY <3>1, <3>2, <3>4
    <3> QED
      BY <1>3, <3>3, <3>4 DEF GoesOn
  <2> QED
    BY <1>4, <2>1, <2>2, <2>3 DEF JobWhole, ImgSteps
<1> QED
  BY <1>1, <1>6, <1>7, <1>8, <1>9, <1>10 DEF SInv

(* QEMU does to all the disks what it does.                                 *)
LEMMA ServedDisks ==
    ASSUME SInv, NEW o \in Objects, QemuServes(o), KnowsTheList
    PROVE  LET n == job[o].name IN
           /\ \A d \in Disks : Single(disks'[d])
           /\ \/ disks' = disks
              \/ \E T \in {{}, {job[o].take}} : \A d \in Disks : \A m :
                    Takes(disks'[d], m) = IF m = n THEN T ELSE Takes(disks[d], m)
           /\ job[o].step # "loadvm" => point' = point
           /\ job[o].step = "loadvm" =>
                 /\ disks' = disks
                 /\ \/ point' = point /\ job'[o].reply = "error"
                    \/ \A d \in Disks : Takes(disks[d], n) = {point'[d]}
<1> DEFINE n == job[o].name
           t == job[o].take
<1>1. job[o].step # "none" /\ job[o].step \in QemuSteps
  BY ServeSteps DEF SInv, QemuSteps
<1>2. ASSUME NEW d \in Disks
      PROVE  /\ disks[d] \in Seq(Copies) /\ Single(disks[d])
             /\ Without(d, n) \in Seq(Copies) /\ Single(Without(d, n))
             /\ \A m : Takes(Without(d, n), m) = IF m = n THEN {} ELSE Takes(disks[d], m)
  <2>1. disks[d] \in Seq(Copies) /\ Single(disks[d])
    BY DEF SInv, TypeOK, DisksTyped, AllSingle
  <2> QED
    BY <2>1, WithoutFacts
<1>3. ASSUME NEW d \in Disks, NEW s \in Seq(Copies), Single(s), ~Has(s, n), NEW b \in BOOLEAN
      PROVE  /\ Single(Append(s, Copy(o, b)))
             /\ \A m : Takes(Append(s, Copy(o, b)), m) = IF m = n THEN {t} ELSE Takes(s, m)
  <2>1. Copy(o, b) \in Copies /\ Copy(o, b).name = n /\ Copy(o, b).take = t
    BY <1>1, CopyTyped DEF SInv, TypeOK
  <2>2. Takes(s, n) = {}
    BY <1>3, HasTakes
  <2> QED
    BY <1>3, <2>1, <2>2, AppendFacts
<1>4. \A d \in Disks : ~Has(Without(d, n), n)
  BY <1>2, HasTakes
<1> HIDE DEF n, t
<1>5. CASE disks' = disks
  <2>1. \A d \in Disks : Single(disks'[d])
    BY <1>2, <1>5
  <2>2. job[o].step # "loadvm" => point' = point
    BY DEF QemuServes, QemuSaves, QemuTellsBlocks, QemuDeletes, QemuTransacts, QemuLoads, Awaits,
           diskVars
  <2>3. ASSUME job[o].step = "loadvm"
        PROVE  \/ point' = point /\ job'[o].reply = "error"
               \/ \A d \in Disks : Takes(disks[d], n) = {point'[d]}
    <3>1. QemuLoads(o)
      BY <2>3 DEF QemuServes, QemuSaves, QemuTellsBlocks, QemuDeletes, QemuTransacts, Awaits
    <3>2. CASE UNCHANGED point /\ Replies(o, "error")
      BY <3>2 DEF Replies, SInv, TypeOK, JobTyped, Actions
    <3>3. CASE /\ \A d \in Disks : Has(disks[d], n)
               /\ point' = [d \in Disks |-> disks[d][FirstNamed(d, n)].take]
      BY <1>2, <3>3, FirstTake DEF SInv, TypeOK
    <3> QED
      BY <3>1, <3>2, <3>3 DEF QemuLoads, n
  <2> QED
    BY <1>5, <2>1, <2>2, <2>3 DEF n
<1>6. CASE /\ disks' = [d \in Disks |-> Append(Without(d, n), Copy(o, d = 1))]
           /\ job[o].step # "loadvm" /\ UNCHANGED point
  <2>1. \A d \in Disks :
            /\ Single(disks'[d])
            /\ \A m : Takes(disks'[d], m) = IF m = n THEN {t} ELSE Takes(disks[d], m)
    <3> SUFFICES ASSUME NEW d \in Disks
                 PROVE  /\ Single(disks'[d])
                        /\ \A m : Takes(disks'[d], m) = IF m = n THEN {t} ELSE Takes(disks[d], m)
      OBVIOUS
    <3> DEFINE s == Without(d, n)
    <3>1. /\ s \in Seq(Copies) /\ Single(s) /\ ~Has(s, n) /\ (d = 1) \in BOOLEAN
          /\ \A m : Takes(s, m) = IF m = n THEN {} ELSE Takes(disks[d], m)
      BY <1>2, <1>4
    <3>2. disks'[d] = Append(s, Copy(o, d = 1))
      BY <1>6
    <3> HIDE DEF s
    <3>3. /\ Single(Append(s, Copy(o, d = 1)))
          /\ \A m : Takes(Append(s, Copy(o, d = 1)), m) = IF m = n THEN {t} ELSE Takes(s, m)
      BY <1>3, <3>1
    <3> QED
      BY <3>1, <3>2, <3>3
  <2> QED
    BY <1>6, <2>1 DEF n, t
<1>7. CASE /\ disks' = [d \in Disks |-> Without(d, n)]
           /\ job[o].step # "loadvm" /\ UNCHANGED point
  <2>1. \A d \in Disks :
            /\ Single(disks'[d])
            /\ \A m : Takes(disks'[d], m) = IF m = n THEN {} ELSE Takes(disks[d], m)
    BY <1>2, <1>7
  <2> QED
    BY <1>7, <2>1 DEF n, t
<1>8. CASE /\ \A d \in Disks : ~Has(disks[d], n)
           /\ disks' = [d \in Disks |-> Append(disks[d], Copy(o, FALSE))]
           /\ job[o].step # "loadvm" /\ UNCHANGED point
  <2>1. \A d \in Disks :
            /\ Single(disks'[d])
            /\ \A m : Takes(disks'[d], m) = IF m = n THEN {t} ELSE Takes(disks[d], m)
    BY <1>2, <1>3, <1>8
  <2> QED
    BY <1>8, <2>1 DEF n, t
<1> QED
  BY <1>5, <1>6, <1>7, <1>8
  DEF QemuServes, QemuSaves, QemuTellsBlocks, QemuDeletes, QemuTransacts, QemuLoads, Awaits,
      diskVars, n

LEMMA StepServe ==
    ASSUME SInv, NEW o \in Objects, QemuServes(o)
    PROVE  SInv'
<1> DEFINE n == job[o].name
<1>1. /\ TypeOK'
      /\ UNCHANGED <<vmVars, takes, visible, listVars, restored>>
      /\ job[o].step \in QemuSteps /\ n \in Names
      /\ job'[o].step = job[o].step /\ job'[o].name = n
      /\ \A other \in Objects \ {o} : job'[other] = job[other]
  BY ServeSteps DEF SInv
<1>2. UNCHANGED <<conditions, state, qmp, opened, visible, restored>> /\ Disks' = Disks
  BY <1>1 DEF vmVars, Disks
<1>3. /\ VmFits' /\ KnowsTheList' = KnowsTheList /\ Undisturbed' = Undisturbed
  BY <1>2 DEF SInv, VmFits, KnowsTheList, Undisturbed
<1>4. ASSUME KnowsTheList
      PROVE  o = "shown" /\ job'["shown"].step \in QemuSteps
  BY <1>1, <1>4, OnlyShown DEF SInv
<1>5. NoneLeft'
  BY <1>1, <1>3, <1>4 DEF SInv, NoneLeft, Busy, Objects
<1>6. AllSingle'
  BY <1>2, <1>3, ServedDisks DEF AllSingle
<1>7. ListFits'
  BY <1>1, <1>3, <1>4, NewNotIdle DEF ListFits, TypeOK, QemuSteps
<1>8. JobFits'
  BY <1>3, <1>4 DEF JobFits, QemuSteps
<1>9. JobWhole'
  <2>0. SUFFICES ASSUME Undisturbed
                 PROVE  JobWhole'
    BY <1>3 DEF JobWhole
  <2>1. o = "shown" /\ KnowsTheList
    BY <1>4, <2>0 DEF Undisturbed
  <2>2. \A m \in Names : Whole(m)
    BY <1>1, <2>0, <2>1, NoneUnderWay DEF QemuSteps, ImgSteps
  <2>3. /\ \/ disks' = disks
           \/ \E T \in {{}, {job[o].take}} : \A d \in Disks : \A m :
                 Takes(disks'[d], m) = IF m = n THEN T ELSE Takes(disks[d], m)
        /\ job[o].step # "loadvm" => point' = point
        /\ job[o].step = "loadvm" =>
              \/ point' = point /\ job'[o].reply = "error"
              \/ \A d \in Disks : Takes(disks[d], n) = {point'[d]}
    BY <2>1, ServedDisks
  <2> HIDE DEF n
  <2>4. ASSUME NEW m \in Names
        PROVE  Whole(m)'
    <3>1. \A d, e \in Disks : Takes(disks[d], m) = Takes(disks[e], m)
      BY <2>2 DEF Whole
    <3>2. \A d, e \in Disks : Takes(disks'[d], m) = Takes(disks'[e], m)
      BY <2>3, <3>1
    <3> QED
      BY <1>2, <3>2 DEF Whole, Takes
  <2>5. \/ AtOnePoint'
        \/ point' = point /\ (job[o].step = "loadvm" => job'[o].reply = "error")
    <3>1. ASSUME \A d \in Disks : Takes(disks[d], n) = {point'[d]}
          PROVE  AtOnePoint'
      BY <1>1, <1>2, <2>2, <3>1 DEF Whole, AtOnePoint
    <3> QED
      BY <2>3, <3>1
  <2>6. AtOnePoint /\ point' = point => AtOnePoint'
    BY <1>2 DEF AtOnePoint
  <2>7. /\ job[o].step \in {"loadvm", "apply"} => ~restored
        /\ restored => AtOnePoint
        /\ job'[o].step \notin ImgSteps
    BY <1>1, <2>0, <2>1 DEF SInv, JobWhole, QemuSteps, ImgSteps
  <2> QED
    BY <1>1, <1>2, <2>1, <2>4, <2>5, <2>6, <2>7 DEF JobWhole, ImgSteps
<1> QED
  BY <1>1, <1>3, <1>5, <1>6, <1>7, <1>8, <1>9 DEF SInv

(* qemu-img does to one disk what it does.                                  *)
LEMMA WorkedDisk ==
    ASSUME SInv, NEW o \in Objects, job[o].step \in ImgSteps, NEW d \in job[o].todo,
           ImgWorks(o, d), ImgDoes(o, d), KnowsTheList,
           job[o].step = "creations" => ~Has(disks[d], job[o].name)
    PROVE  LET n == job[o].name IN
           /\ d \in Disks /\ ~opened
           /\ \A e \in Disks : Single(disks'[e])
           /\ \A e \in Disks \ {d} : disks'[e] = disks[e] /\ point'[e] = point[e]
           /\ \A m : m # n => Takes(disks'[d], m) = Takes(disks[d], m)
           /\ job[o].step = "creations" => Takes(disks'[d], n) = {job[o].take}
           /\ job[o].step \in {"removals", "undo", "deletions"} => Takes(disks'[d], n) = {}
           /\ job[o].step = "apply" => Takes(disks[d], n) = {point'[d]} /\ disks' = disks
           /\ job[o].step # "apply" => point' = point
<1> DEFINE n == job[o].name
<1>1. /\ d \in Disks /\ ~opened
      /\ \A e \in Disks \ {d} : disks'[e] = disks[e] /\ point'[e] = point[e]
      /\ \/ /\ job[o].step = "creations"
            /\ disks'[d] = Append(disks[d], Copy(o, FALSE)) /\ point' = point
         \/ /\ job[o].step \in {"removals", "undo", "deletions"}
            /\ disks'[d] = Without(d, n) /\ point' = point
         \/ /\ job[o].step = "apply" /\ Has(disks[d], n) /\ disks' = disks
            /\ point'[d] = disks[d][FirstNamed(d, n)].take
  BY ImgDoesFacts DEF SInv
<1>2. \A e \in Disks : disks[e] \in Seq(Copies) /\ Single(disks[e])
  BY DEF SInv, TypeOK, DisksTyped, AllSingle
<1>3. job[o].step # "none"
  BY DEF ImgSteps
<1> HIDE DEF n
<1>4. CASE job[o].step = "creations"
  <2>1. Copy(o, FALSE) \in Copies /\ Copy(o, FALSE).name = n /\ Copy(o, FALSE).take = job[o].take
    BY <1>3, CopyTyped DEF SInv, TypeOK, n
  <2>2. Takes(disks[d], n) = {} /\ ~Has(disks[d], n)
    BY <1>4, HasTakes DEF n
  <2>3. disks'[d] = Append(disks[d], Copy(o, FALSE)) /\ point' = point
    BY <1>1, <1>4
  <2>4. /\ Single(disks'[d])
        /\ \A m : Takes(disks'[d], m) =
                  IF m = n THEN Takes(disks[d], m) \cup {job[o].take} ELSE Takes(disks[d], m)
    <3>1. disks[d] \in Seq(Copies) /\ Single(disks[d]) /\ ~Has(disks[d], Copy(o, FALSE).name)
      BY <1>1, <1>2, <2>1, <2>2
    <3> DEFINE c == Copy(o, FALSE)
    <3>2. /\ Single(Append(disks[d], c))
          /\ \A m : Takes(Append(disks[d], c), m) =
                    IF m = c.name THEN Takes(disks[d], m) \cup {c.take} ELSE Takes(disks[d], m)
      <4> HIDE DEF c
      <4>1. c \in Copies
        BY <2>1 DEF c
      <4> QED
        BY <3>1, <4>1, AppendFacts DEF c
    <3> QED
      BY <2>1, <2>3, <3>2
  <2> QED
    BY <1>1, <1>2, <1>4, <2>2, <2>3, <2>4 DEF n
<1>5. CASE job[o].step \in {"removals", "undo", "deletions"}
  <2>1. disks'[d] = Without(d, n) /\ point' = point
    BY <1>1, <1>5
  <2>2. /\ Single(disks'[d])
        /\ \A m : Takes(disks'[d], m) = IF m = n THEN {} ELSE Takes(disks[d], m)
    BY <1>1, <1>2, <2>1, WithoutFacts
  <2> QED
    BY <1>1, <1>2, <1>5, <2>1, <2>2 DEF n
<1>6. CASE job[o].step = "apply"
  <2>1. Has(disks[d], n) /\ disks' = disks /\ point'[d] = disks[d][FirstNamed(d, n)].take
    BY <1>1, <1>6
  <2>2. Takes(disks[d], n) = {point'[d]}
    BY <1>1, <1>2, <2>1, FirstTake DEF SInv, TypeOK
  <2> QED
    BY <1>1, <1>2, <1>6, <2>1, <2>2 DEF n
<1> QED
  BY <1>4, <1>5, <1>6 DEF ImgSteps

(* The action after a step of qemu-img, with what it has to do              *)
After(o, d, failed) ==
    LET j == job[o] IN
    \/ /\ j.todo # {d} /\ (failed => j.step = "undo")
       /\ job'[o].step = j.step /\ job'[o].name = j.name /\ job'[o].take = j.take
       /\ job'[o].todo = j.todo \ {d} /\ job'[o].failed = (failed \/ j.failed)
       /\ restored' = restored
    \/ /\ j.todo = {d} /\ j.step = "removals" /\ ~failed /\ ~j.failed
       /\ job'[o].step = "creations" /\ job'[o].name = j.name /\ job'[o].todo = Disks
       /\ job'[o].failed = FALSE /\ job'[o].take = j.take
       /\ restored' = restored
    \/ /\ j.step = "creations" /\ (failed \/ j.failed)
       /\ job'[o].step = "undo" /\ job'[o].name = j.name /\ job'[o].todo = Disks
       /\ job'[o].failed = TRUE
       /\ restored' = restored
    \/ /\ j.todo = {d} \/ (failed /\ j.step # "undo")
       /\ j.step = "removals" => failed \/ j.failed
       /\ j.step = "creations" => ~failed /\ ~j.failed
       /\ job'[o] = Idle
       /\ restored' = (restored \/ (~failed /\ ~j.failed /\ j.step \in {"loadvm", "apply"}))

LEMMA GoesNext ==
    ASSUME TypeOK, NEW o \in Objects, NEW d, NEW failed \in BOOLEAN, Goes(o, d, failed)
    PROVE  After(o, d, failed)
<1>1. \A next : job' = [job EXCEPT ![o] = next] => job'[o] = next
  BY DEF TypeOK, JobTyped
<1>2. job[o] \in Actions
  BY DEF TypeOK, JobTyped
<1>3. CASE /\ job[o].todo # {d} /\ (failed => job[o].step = "undo")
           /\ GoesOn(o, [job[o] EXCEPT !.todo = @ \ {d}, !.failed = failed \/ @])
  <2> DEFINE next == [job[o] EXCEPT !.todo = @ \ {d}, !.failed = failed \/ @]
  <2>1. job'[o] = next
    BY <1>1, <1>3 DEF GoesOn
  <2>2. /\ next.step = job[o].step /\ next.name = job[o].name /\ next.take = job[o].take
        /\ next.todo = job[o].todo \ {d} /\ next.failed = (failed \/ job[o].failed)
    BY <1>2 DEF Actions
  <2> HIDE DEF next
  <2> QED
    BY <1>3, <2>1, <2>2 DEF GoesOn, After
<1>4. CASE /\ job[o].todo = {d} /\ job[o].step = "removals" /\ ~failed /\ ~job[o].failed
           /\ GoesOn(o, Run("creations", job[o].name, job[o].take, Disks))
  <2> DEFINE next == Run("creations", job[o].name, job[o].take, Disks)
  <2>1. job'[o] = next
    BY <1>1, <1>4 DEF GoesOn
  <2>2. /\ next.step = "creations" /\ next.name = job[o].name
        /\ next.todo = Disks /\ next.failed = FALSE /\ next.take = job[o].take
    BY DEF Run, Idle
  <2> HIDE DEF next
  <2> QED
    BY <1>4, <2>1, <2>2 DEF GoesOn, After
<1>5. CASE /\ job[o].step = "creations" /\ (failed \/ job[o].failed)
           /\ GoesOn(o, [Run("undo", job[o].name, job[o].take, Disks) EXCEPT !.failed = TRUE])
  <2> DEFINE next == [Run("undo", job[o].name, job[o].take, Disks) EXCEPT !.failed = TRUE]
  <2>1. job'[o] = next
    BY <1>1, <1>5 DEF GoesOn
  <2>2. /\ next.step = "undo" /\ next.name = job[o].name
        /\ next.todo = Disks /\ next.failed = TRUE
    BY DEF Run, Idle
  <2> HIDE DEF next
  <2> QED
    BY <1>5, <2>1, <2>2 DEF GoesOn, After
<1>6. CASE /\ job[o].todo = {d} \/ (failed /\ job[o].step # "undo")
           /\ job[o].step = "removals" => failed \/ job[o].failed
           /\ job[o].step = "creations" => ~failed /\ ~job[o].failed
           /\ Finish(o, failed \/ job[o].failed)
  BY <1>1, <1>6 DEF Finish, After
<1> QED
  BY <1>3, <1>4, <1>5, <1>6 DEF Goes

LEMMA StepWork ==
    ASSUME SInv, NEW o \in Objects, ImgEnds(o)
    PROVE  SInv'
<1>j. PICK j : j = job[o]
  OBVIOUS
<1>k. PICK k : k = job'[o]
  OBVIOUS
<1>n. PICK n : n = j.name
  OBVIOUS
<1> USE <1>j, <1>k, <1>n
<1>1. /\ TypeOK'
      /\ \A other \in Objects \ {o} : job'[other] = job[other]
      /\ o = "shown" => ListFits'
  BY WorkSteps DEF SInv
<1>2. /\ UNCHANGED <<conditions, state, qmp, opened, visible>> /\ Disks' = Disks
      /\ j.step \in ImgSteps /\ n \in Names /\ j.todo \in SUBSET Disks /\ j.failed \in BOOLEAN
  BY ImgFacts DEF SInv, vmVars, Disks, TypeOK, JobTyped, Actions
<1>3. /\ VmFits' /\ KnowsTheList' = KnowsTheList /\ Undisturbed' = Undisturbed
  BY <1>2 DEF SInv, VmFits, KnowsTheList, Undisturbed
<1>4. ASSUME KnowsTheList
      PROVE  o = "shown"
  BY <1>2, <1>4, OnlyShown DEF SInv
<1>5. PICK d \in j.todo : Worked(o, d) \/ Broke(o, d)
  BY ImgFacts DEF SInv
<1>6. NoneLeft'
  BY <1>1, <1>3, <1>4 DEF SInv, NoneLeft, Busy, Objects
<1>7. ListFits'
  BY <1>1, <1>3, <1>4 DEF ListFits
<1>8. d \in Disks
  BY <1>2, <1>5
<1>9. KnowsTheList => (j.step = "creations" => ~Has(disks[d], n))
  BY <1>4, <1>5 DEF SInv, JobFits
<1>10. ASSUME Worked(o, d), KnowsTheList
       PROVE  /\ ~opened /\ After(o, d, FALSE)
              /\ \A e \in Disks : Single(disks'[e])
              /\ \A e \in Disks \ {d} : disks'[e] = disks[e] /\ point'[e] = point[e]
              /\ \A m : m # n => Takes(disks'[d], m) = Takes(disks[d], m)
              /\ j.step = "creations" => Takes(disks'[d], n) = {j.take}
              /\ j.step \in {"removals", "undo", "deletions"} => Takes(disks'[d], n) = {}
              /\ j.step = "apply" => Takes(disks[d], n) = {point'[d]} /\ disks' = disks
              /\ j.step # "apply" => point' = point
  BY <1>2, <1>9, <1>10, WorkedDisk, GoesNext DEF Worked, SInv
<1>11. ASSUME Broke(o, d)
       PROVE  /\ After(o, d, TRUE) /\ disks' = disks /\ point' = point
              /\ ~ImgWorks(o, d) \/ Op[j.step] \in conditions.breaks
  BY <1>11, GoesNext DEF Broke, diskVars, SInv
<1>12. AllSingle'
  <2>1. CASE Worked(o, d)
    BY <1>2, <1>3, <1>10, <2>1 DEF AllSingle
  <2>2. CASE Broke(o, d)
    BY <1>2, <1>3, <1>11, <2>2 DEF SInv, AllSingle, Single
  <2> QED
    BY <1>5, <2>1, <2>2
<1>13. JobFits'
  <2>0. SUFFICES ASSUME KnowsTheList
                 PROVE  JobFits'
    BY <1>3 DEF JobFits
  <2>1. /\ o = "shown"
        /\ j.step = "removals" => \A e \in Disks \ j.todo : Takes(disks[e], n) = {}
        /\ j.step = "creations" => \A e \in j.todo : Takes(disks[e], n) = {}
    BY <1>4, <2>0, HasTakes DEF SInv, JobFits
  <2>2. SUFFICES /\ k.step = "removals" => \A e \in Disks \ k.todo : Takes(disks'[e], k.name) = {}
                 /\ k.step = "creations" => \A e \in k.todo : Takes(disks'[e], k.name) = {}
    BY <1>2, <2>1, HasTakes DEF JobFits
  <2>3. CASE Worked(o, d)
    BY <1>2, <1>10, <2>0, <2>1, <2>3, IdleTyped DEF After
  <2>4. CASE Broke(o, d)
    BY <1>2, <1>11, <2>1, <2>4, IdleTyped DEF After
  <2> QED
    BY <1>5, <2>3, <2>4
<1>14. JobWhole'
  <2>0. SUFFICES ASSUME Undisturbed
                 PROVE  JobWhole'
    BY <1>3 DEF JobWhole
  <2>1. o = "shown" /\ KnowsTheList /\ "-d" \notin conditions.breaks
    BY <1>4, <2>0 DEF Undisturbed
  <2>2. /\ \A m \in Names \ {n} : Whole(m)
        /\ state # "Starting"
        /\ j.step # "undo" => ~j.failed
        /\ j.step = "undo" => j.failed
        /\ j.step \in {"removals", "deletions"} => Removing(j)
        /\ j.step = "creations" => Creating(j)
        /\ j.step = "undo" => Undoing(j)
        /\ j.step = "apply" => Applying(j)
        /\ j.step = "apply" => ~restored
        /\ restored => AtOnePoint
    BY <1>2, <2>0, <2>1 DEF SInv, JobWhole
  <2>3. Disks # {}
    BY DisksThere DEF SInv, TypeOK, VmTyped, Disks
  <2>4. ASSUME NEW m \in Names \ {n}
        PROVE  Whole(m)'
    <3>1. \A e \in Disks : Takes(disks'[e], m) = Takes(disks[e], m)
      BY <1>5, <1>10, <1>11, <2>1
    <3>2. \A e, f \in Disks : Takes(disks'[e], m) = Takes(disks'[f], m)
      BY <2>2, <3>1 DEF Whole
    <3> QED
      BY <1>2, <3>2 DEF Whole, Takes
  <2>5. /\ Whole(n)' <=> \A e, f \in Disks : Takes(disks'[e], n) = Takes(disks'[f], n)
        /\ AtOnePoint' <=> \A e, f \in Disks : point'[e] = point'[f]
    BY <1>2 DEF Whole, Takes, AtOnePoint
  <2>6. SUFFICES
          /\ k.step \notin ImgSteps => Whole(n)'
          /\ k.step \in ImgSteps => k.name = n /\ k.todo # {}
          /\ k.step \in ImgSteps \ {"undo"} => ~k.failed
          /\ k.step = "undo" => k.failed
          /\ k.step \in {"removals", "deletions"} => Removing(k)'
          /\ k.step = "creations" => Creating(k)'
          /\ k.step = "undo" => Undoing(k)'
          /\ k.step = "apply" => Applying(k)' /\ ~restored'
          /\ k.step # "loadvm"
          /\ restored' => AtOnePoint'
    BY <1>2, <2>1, <2>2, <2>4 DEF JobWhole
  <2>7. AtOnePoint /\ point' = point => AtOnePoint'
    BY <1>2 DEF AtOnePoint
  <2>8. /\ ~Undisturbed \/ ~(Op[j.step] = "-d" /\ Op[j.step] \in conditions.breaks)
        /\ Broke(o, d) /\ Op[j.step] = "-d" => opened \/ Takes(disks[d], n) = {}
    BY <1>11, <2>1, HasTakes DEF ImgWorks
  <2>9. CASE j.step \in {"removals", "deletions"}
    <3>1. CASE Worked(o, d)
      <4>1. /\ ~opened /\ After(o, d, FALSE) /\ point' = point
            /\ Takes(disks'[d], n) = {}
            /\ \A e \in Disks \ {d} : disks'[e] = disks[e]
        BY <1>10, <2>1, <2>9, <3>1
      <4>2. CASE k.step = j.step
        BY <1>2, <2>2, <2>7, <2>9, <4>1, <4>2, IdleTyped DEF After, Removing, ImgSteps
      <4>3. CASE k.step = "creations"
        BY <1>2, <2>2, <2>3, <2>7, <2>9, <4>1, <4>3, IdleTyped DEF After, Removing, Creating, ImgSteps
      <4>4. CASE k = Idle
        BY <1>2, <2>2, <2>5, <2>7, <2>9, <4>1, <4>4, IdleTyped, ZenonT(40) DEF After, Removing, ImgSteps
      <4> QED
        BY <2>9, <4>1, <4>2, <4>3, <4>4 DEF After
    <3>2. CASE Broke(o, d)
      <4>1. opened /\ Whole(n) /\ After(o, d, TRUE) /\ disks' = disks /\ point' = point
        BY <1>5, <1>11, <2>2, <2>8, <2>9, <3>2, OpFacts DEF Removing, ImgSteps
      <4>2. k = Idle /\ (restored' => restored)
        BY <2>9, <4>1 DEF After
      <4> QED
        BY <2>2, <2>5, <2>7, <4>1, <4>2, IdleTyped DEF Whole, ImgSteps
    <3> QED
      BY <1>5, <3>1, <3>2
  <2>10. CASE j.step = "creations"
    <3>1. CASE Worked(o, d)
      <4>1. /\ ~opened /\ After(o, d, FALSE) /\ point' = point
            /\ Takes(disks'[d], n) = {j.take}
            /\ \A e \in Disks \ {d} : disks'[e] = disks[e]
        BY <1>10, <2>1, <2>10, <3>1
      <4>2. CASE k.step = "creations"
        BY <1>2, <2>2, <2>7, <2>10, <4>1, <4>2, IdleTyped DEF After, Creating, ImgSteps
      <4>3. CASE k = Idle
        BY <1>2, <2>2, <2>5, <2>7, <2>10, <4>1, <4>3, IdleTyped, SMTT(30) DEF After, Creating, ImgSteps
      <4> QED
        BY <2>2, <2>10, <4>1, <4>2, <4>3 DEF After
    <3>2. CASE Broke(o, d)
      <4>1. After(o, d, TRUE) /\ disks' = disks /\ point' = point
        BY <1>11, <3>2
      <4>2. /\ k.step = "undo" /\ k.name = n /\ k.todo = Disks /\ k.failed = TRUE
            /\ restored' = restored
        BY <2>10, <4>1 DEF After
      <4>3. opened => \A e \in Disks : Takes(disks[e], n) = {}
        BY <1>5, <1>8, <2>2, <2>10 DEF Creating, Whole
      <4> QED
        BY <1>2, <2>2, <2>3, <2>7, <4>1, <4>2, <4>3 DEF Undoing, ImgSteps
    <3> QED
      BY <1>5, <3>1, <3>2
  <2>11. CASE j.step = "undo"
    <3>1. /\ \E failed \in BOOLEAN : After(o, d, failed)
          /\ point' = point
          /\ Takes(disks'[d], n) = {}
          /\ \A e \in Disks \ {d} : disks'[e] = disks[e]
      <4>1. CASE Worked(o, d)
        BY <1>10, <2>1, <2>11, <4>1
      <4>2. CASE Broke(o, d)
        BY <1>8, <1>11, <2>2, <2>8, <2>11, <4>2, OpFacts DEF Undoing, ImgSteps
      <4> QED
        BY <1>5, <4>1, <4>2
    <3>2. opened => \A e \in Disks : Takes(disks'[e], n) = {}
      BY <2>2, <2>11, <3>1 DEF Undoing
    <3>3. CASE k.step = "undo"
      BY <1>2, <2>2, <2>7, <2>11, <3>1, <3>2, <3>3, IdleTyped DEF After, Undoing, ImgSteps
    <3>4. CASE k = Idle
      BY <1>2, <2>2, <2>5, <2>7, <2>11, <3>1, <3>4, IdleTyped DEF After, Undoing, ImgSteps
    <3> QED
      BY <2>11, <3>1, <3>3, <3>4 DEF After
  <2>12. CASE j.step = "apply"
    <3>1. CASE Worked(o, d)
      <4>1. /\ After(o, d, FALSE) /\ disks' = disks
            /\ Takes(disks[d], n) = {point'[d]}
            /\ \A e \in Disks \ {d} : point'[e] = point[e]
        BY <1>10, <2>1, <2>12, <3>1
      <4>2. Whole(n) /\ Whole(n)' /\ \A e \in Disks \ (j.todo \ {d}) : Takes(disks[e], n) = {point'[e]}
        BY <2>2, <2>5, <2>12, <4>1 DEF Applying, Whole
      <4>3. CASE k.step = "apply"
        BY <1>2, <2>2, <2>12, <4>1, <4>2, <4>3, IdleTyped DEF After, Applying, ImgSteps
      <4>4. CASE k = Idle
        <5>1. \A e \in Disks : Takes(disks[e], n) = {point'[e]}
          BY <2>12, <4>1, <4>2, <4>4, IdleTyped DEF After
        <5>2. AtOnePoint'
          BY <2>5, <4>2, <5>1 DEF Whole
        <5> QED
          BY <4>2, <4>4, <5>2, IdleTyped DEF ImgSteps
      <4> QED
        BY <2>12, <4>1, <4>3, <4>4 DEF After
    <3>2. CASE Broke(o, d)
      <4>1. After(o, d, TRUE) /\ disks' = disks /\ point' = point
        BY <1>11, <3>2
      <4>2. k = Idle /\ (restored' => restored)
        BY <2>12, <4>1 DEF After
      <4> QED
        BY <2>2, <2>5, <2>7, <2>12, <4>1, <4>2, IdleTyped DEF Applying, Whole, ImgSteps
    <3> QED
      BY <1>5, <3>1, <3>2
  <2> QED
    BY <1>2, <2>9, <2>10, <2>11, <2>12 DEF ImgSteps
<1> QED
  BY <1>1, <1>3, <1>6, <1>7, <1>12, <1>13, <1>14 DEF SInv

LEMMA InitSInv == Init => SInv
<1> SUFFICES ASSUME Init PROVE SInv
  OBVIOUS
<1>1. conditions \in Conditions /\ conditions.disks \in Nat
  BY DisksThere DEF Init
<1>2. <<>> \in Seq(Copies) /\ \A i : i \notin DOMAIN <<>>
  BY EmptySeq, LenProperties
<1>3. TypeOK
  <2>1. VmTyped
    BY DEF Init, VmTyped, States
  <2>2. DisksTyped
    BY <1>2 DEF Init, DisksTyped
  <2>3. JobTyped
    BY IdleTyped DEF Init, JobTyped
  <2>4. ListTyped
    BY NoSnapshotsTyped DEF Init, ListTyped
  <2> QED
    BY <2>1, <2>2, <2>3, <2>4 DEF TypeOK
<1>4. VmFits /\ NoneLeft /\ AllSingle
  BY <1>2 DEF Init, VmFits, NoneLeft, AllSingle, Single, Busy, Objects
<1>5. /\ job["shown"].step = "none" /\ ~visible /\ flight = {} /\ ~restored
      /\ \A d \in Disks : disks[d] = <<>>
  BY IdleTyped DEF Init, Objects
<1>6. ListFits /\ JobFits
  BY <1>5 DEF ListFits, JobFits
<1>7. \A n : Whole(n)
  BY <1>5 DEF Whole
<1>8. JobWhole
  BY <1>5, <1>7 DEF JobWhole, ImgSteps
<1> QED
  BY <1>3, <1>4, <1>6, <1>8 DEF SInv

LEMMA StepSInv == SInv /\ [Next]_vars => SInv'
<1> SUFFICES ASSUME SInv, [Next]_vars PROVE SInv'
  OBVIOUS
<1>1. CASE BeginStep
  BY <1>1, StepBegin
<1>2. CASE VmStep
  BY <1>2, StepVm
<1>3. CASE Show \/ Hide
  BY <1>3, StepShow
<1>4. CASE Reselect
  BY <1>4, StepReselect
<1>5. ASSUME NEW o \in Objects, QemuServes(o) \/ ImgEnds(o) \/ AnswerStep(o)
      PROVE  SInv'
  BY <1>5, StepServe, StepWork, StepAnswer
<1>6. ASSUME NEW l \in flight, ListStep(l)
      PROVE  SInv'
  BY <1>6, StepList
<1>7. CASE UNCHANGED vars
  <2>1. UNCHANGED <<vmVars, diskVars, takes, visible, job, listVars, restored>>
    BY <1>7 DEF vars
  <2>2. NoneLeft' /\ AllSingle' /\ JobFits' /\ JobWhole' /\ VmFits'
    BY <2>1, Unaffected DEF vmVars, diskVars, SInv, VmFits
  <2>3. TypeOK'
    BY <2>1, SameListTyped, SameDisksTyped, SameJobTyped
    DEF SInv, TypeOK, VmTyped, vmVars, diskVars
  <2>4. UNCHANGED <<conditions, state, disks, visible, job, list, listOk, flight>>
    BY <2>1 DEF vmVars, listVars, diskVars
  <2>5. (\A l \in flight : l.current => TrueSoFar(l)) => \A l \in flight' : l.current => TrueSoFar(l)'
    BY <2>4 DEF TrueSoFar
  <2>6. NoSnapshots' = NoSnapshots /\ Merged(disks)' = Merged(disks) /\ NoneCurrent' = NoneCurrent
    BY <2>4 DEF NoSnapshots, Merged, Entry, Has, WithState, NoneCurrent
  <2>7. ListFits'
    BY <2>4, <2>5, <2>6 DEF SInv, ListFits, Busy, KnowsTheList
  <2> QED
    BY <2>2, <2>3, <2>7 DEF SInv
<1> QED
  BY <1>1, <1>2, <1>3, <1>4, <1>5, <1>6, <1>7, NextCases

(* The invariant holds, for every set of names and of conditions.          *)
THEOREM SInvHolds == Spec => []SInv
BY InitSInv, StepSInv, PTL DEF Spec

(* A take() replaces what had the name before: with QEMU and with qemu-img, *)
(* which would add a second one, whatever failed and whenever the VM was    *)
(* started, as long as the user acted on a list that is up to date.         *)
THEOREM NoneTwice == Spec => []NoDoubles
<1>1. SInv => NoDoubles
  BY DEF SInv, AllSingle, Single, NoDoubles
<1> QED
  BY <1>1, SInvHolds, PTL

(* What the view lists is what is on the disks, though answers to an older  *)
(* refresh() arrive late and the VM starts and ends in between.             *)
THEOREM ListTrue == Spec => []ListUpToDate
<1>1. SInv => ListUpToDate
  <2> SUFFICES ASSUME SInv, KnowsTheList, visible, listOk, \A o \in Objects : ~Busy(o),
                      \A l \in flight : ~l.current
               PROVE  list = IF state \in {"Live", "Stopped"} THEN Merged(disks) ELSE NoSnapshots
    BY DEF ListUpToDate
  <2>1. ~Busy("shown") /\ NoneCurrent
    BY DEF Objects, NoneCurrent
  <2> QED
    BY <2>1 DEF SInv, ListFits
<1> QED
  BY <1>1, SInvHolds, PTL

(* "None, rather than some of the disks": undisturbed, what a take() made   *)
(* is in all the disks of the VM or in none, however many it has and        *)
(* wherever qemu-img failed.                                                *)
THEOREM AllOrNone == Spec => []WholeSnapshots
<1>1. SInv => WholeSnapshots
  <2> SUFFICES ASSUME SInv, Undisturbed, \A o \in Objects : ~Busy(o), NEW t \in 1 .. takes,
                      Holders(t) # {}
               PROVE  Holders(t) = Disks
    BY DEF WholeSnapshots
  <2>1. \A n \in Names : Whole(n)
    <3>1. job["shown"].step = "none"
      BY NotBusy DEF Objects
    <3> QED
      BY <3>1, NoneUnderWay DEF ImgSteps
  <2>2. PICK d \in Disks : \E i \in DOMAIN disks[d] : disks[d][i].take = t
    BY DEF Holders
  <2>3. PICK i \in DOMAIN disks[d] : disks[d][i].take = t
    BY <2>2
  <2>4. disks[d][i].name \in Names
    <3>1. disks[d] \in Seq(Copies)
      BY DEF SInv, TypeOK, DisksTyped
    <3>2. disks[d][i] \in Copies
      BY <3>1, ElementOfSeq, LenProperties
    <3> QED
      BY <3>2 DEF Copies
  <2>5. t \in Takes(disks[d], disks[d][i].name)
    BY <2>3 DEF Takes
  <2>6. \A e \in Disks : t \in Takes(disks[e], disks[d][i].name)
    BY <2>1, <2>4, <2>5 DEF Whole
  <2>7. \A e \in Disks : \E k \in DOMAIN disks[e] : disks[e][k].take = t
    BY <2>6 DEF Takes
  <2> QED
    BY <2>7 DEF Holders
<1> QED
  BY <1>1, SInvHolds, PTL

(* A restore() that succeeded left all the disks at the same take, though   *)
(* qemu-img goes through them one by one and may fail on any.               *)
THEOREM AllTakenBack == Spec => []RestoredTogether
<1>1. SInv => RestoredTogether
  BY DEF SInv, JobWhole, AtOnePoint, RestoredTogether
<1> QED
  BY <1>1, SInvHolds, PTL

================================================================================
