--------------------------- MODULE VmFilesProofs ---------------------------
(***************************************************************************)
(* Proofs about the files of VMs, for any templates, descriptors and VMs:  *)
(* a VM that runs, and was not started anyway, runs with all of its        *)
(* firmware; whatever steps of replacing it fail, nothing is lost; what is *)
(* damaged, and nothing else, is called damaged; and nothing that QEMU     *)
(* opens to write for a VM is what it writes for a clone of it.            *)
(*                                                                         *)
(* First what the setters of one item do for every value, line and file:   *)
(* what is set is read back, in whichever form the line had it, and the    *)
(* other items of the line are read as before.  Words are the members of a *)
(* set W, the names of options of a set N.  A getter looks for the first   *)
(* of the places that fit, a setter for the first that may be replaced;    *)
(* that these are the same place is what the lemmas on Min are for.        *)
(***************************************************************************)
EXTENDS VmFiles, FiniteSetTheorems, SequenceTheorems, WellFoundedInduction, TLAPS

-----------------------------------------------------------------------------
(* The least of a set of positions                                         *)

LEMMA LessIsWellFounded == IsWellFoundedOn({p \in Nat \X Nat : p[1] < p[2]}, Nat)
  BY NatLessThanWellFounded DEF OpToRel

LEMMA MinIs ==
    ASSUME NEW S \in SUBSET Nat, S # {}
    PROVE  Min(S) \in S /\ \A y \in S : Min(S) <= y
<1> DEFINE R == {p \in Nat \X Nat : p[1] < p[2]}
<1>1. PICK x \in S : \A y \in S : ~(<<y, x>> \in R)
  <2> HIDE DEF R
  <2>1. IsWellFoundedOn(R, Nat)
    BY LessIsWellFounded DEF R
  <2> QED
    BY <2>1, WFMin
<1>2. \A y \in S : ~(y < x)
  BY <1>1
<1>3. \A y \in S : x <= y
  BY <1>2
<1> QED
  BY <1>3 DEF Min

(* The position that a search finds, by where it is.                       *)
LEMMA MinOf ==
    ASSUME NEW S \in SUBSET Nat, NEW x \in S, \A y \in S : x <= y
    PROVE  Min(S) = x
<1>1. PICK m \in S : m = Min(S) /\ m <= x
  BY MinIs
<1>2. m = x
  BY <1>1
<1> QED
  BY <1>1, <1>2

LEMMA Appended ==
    ASSUME NEW T, NEW s \in Seq(T), NEW e \in T, NEW new, new = Append(s, e)
    PROVE  /\ new \in Seq(T) /\ Len(new) = Len(s) + 1 /\ Len(s) \in Nat
           /\ new[Len(s) + 1] = e /\ \A i \in 1 .. Len(s) : new[i] = s[i]
  OBVIOUS

LEMMA ReplacedAt ==
    ASSUME NEW T, NEW s \in Seq(T), NEW x \in 1 .. Len(s), NEW e \in T, NEW new,
           new = [s EXCEPT ![x] = e]
    PROVE  /\ new \in Seq(T) /\ Len(new) = Len(s)
           /\ new[x] = e /\ \A i \in (1 .. Len(s)) \ {x} : new[i] = s[i]
  OBVIOUS

-----------------------------------------------------------------------------
(* Items                                                                   *)

With(v, key) == {i \in 1 .. Len(v) : v[i][1] = key}
Given(v, key) == {i \in 1 .. Len(v) : v[i][1] = key /\ v[i][2] # Bare}

LEMMA Places ==
    ASSUME NEW T, NEW v \in Seq(T), NEW key
    PROVE  /\ With(v, key) \in SUBSET Nat /\ 0 \notin With(v, key)
           /\ Given(v, key) \in SUBSET Nat /\ 0 \notin Given(v, key)
  BY DEF With, Given

LEMMA GetIs ==
    ASSUME NEW T, NEW v \in Seq(T), NEW key, NEW fallback
    PROVE  /\ Given(v, key) = {} => GetOr(v, key, fallback) = fallback
           /\ \A x \in Given(v, key) : (\A y \in Given(v, key) : x <= y)
                  => GetOr(v, key, fallback) = v[x][2]
<1>1. Given(v, key) \in SUBSET Nat /\ 0 \notin Given(v, key)
  BY Places
<1>2. GetOr(v, key, fallback) =
          IF Given(v, key) = {} THEN fallback ELSE v[Min(Given(v, key))][2]
  <2>1. Given(v, key) # {} => Min(Given(v, key)) # 0
    BY <1>1, MinIs
  <2> QED
    BY <2>1 DEF GetOr, SelectInSeq, Given
<1> QED
  BY <1>1, <1>2, MinOf

(* The value that is set is at the first place of its key, else at the end.*)
SetAt(v, key, value, new, x) ==
    /\ x \in 1 .. Len(new) /\ new[x][1] = key /\ new[x][2] = value
    /\ \A i \in (1 .. Len(v)) \ {x} : new[i] = v[i]
    /\ \A y \in With(v, key) : x <= y
    /\ \/ x = Len(v) + 1 /\ Len(new) = Len(v) + 1
       \/ x \in With(v, key) /\ Len(new) = Len(v)

IsSet(v, key, value, new, x) ==
    new = SetItem(v, key, value) /\ SetAt(v, key, value, new, x)

LEMMA Pairs ==
    ASSUME NEW W, NEW key \in W, NEW value \in W
    PROVE  \E e \in W \X W : e = <<key, value>> /\ e[1] = key /\ e[2] = value
<1>1. <<key, value>> \in W \X W
  OBVIOUS
<1>2. <<key, value>>[1] = key /\ <<key, value>>[2] = value
  OBVIOUS
<1> QED
  BY <1>1, <1>2

LEMMA PairChanged ==
    ASSUME NEW W, NEW e \in W \X W, NEW value \in W
    PROVE  \E c \in W \X W : c = [e EXCEPT ![2] = value] /\ c[1] = e[1] /\ c[2] = value
<1>1. [e EXCEPT ![2] = value] \in W \X W
  OBVIOUS
<1>2. [e EXCEPT ![2] = value][1] = e[1] /\ [e EXCEPT ![2] = value][2] = value
  OBVIOUS
<1> QED
  BY <1>1, <1>2

LEMMA SetIs ==
    ASSUME NEW W, NEW v \in Seq(W \X W), NEW key \in W, NEW value \in W
    PROVE  \E new \in Seq(W \X W), x \in Nat : IsSet(v, key, value, new, x)
<1>1. PICK S \in SUBSET Nat : S = With(v, key) /\ 0 \notin S
  BY Places
<1>2. SetItem(v, key, value) =
          IF S = {} THEN Append(v, <<key, value>>) ELSE [v EXCEPT ![Min(S)][2] = value]
  <2>1. S # {} => Min(S) # 0
    BY <1>1, MinIs
  <2> QED
    BY <1>1, <2>1 DEF SetItem, SelectInSeq, With
<1>3. CASE S = {}
  <2>1. PICK e \in W \X W : e = <<key, value>> /\ e[1] = key /\ e[2] = value
    BY Pairs
  <2>2. PICK new : new = SetItem(v, key, value) /\ new = Append(v, e)
    BY <1>2, <1>3, <2>1
  <2>3. /\ new \in Seq(W \X W) /\ Len(new) = Len(v) + 1 /\ Len(v) \in Nat
        /\ new[Len(v) + 1] = e /\ \A i \in 1 .. Len(v) : new[i] = v[i]
    BY <2>2, Appended
  <2>4. SetAt(v, key, value, new, Len(v) + 1)
    BY <1>1, <1>3, <2>1, <2>3 DEF SetAt
  <2>5. Len(v) + 1 \in Nat
    BY <2>3
  <2> QED
    BY <2>2, <2>3, <2>4, <2>5 DEF IsSet
<1>4. CASE S # {}
  <2>1. PICK x \in S : x = Min(S) /\ \A y \in S : x <= y
    BY <1>4, MinIs
  <2>2. x \in 1 .. Len(v) /\ v[x][1] = key
    BY <1>1 DEF With
  <2>3. v[x] \in W \X W
    BY <2>2
  <2>4. PICK e \in W \X W : e = [v[x] EXCEPT ![2] = value] /\ e[1] = v[x][1] /\ e[2] = value
    BY <2>3, PairChanged
  <2>5. PICK new : new = SetItem(v, key, value) /\ new = [v EXCEPT ![x][2] = value]
    BY <1>2, <1>4, <2>1
  <2>6. new = [v EXCEPT ![x] = e]
    BY <2>4, <2>5
  <2>7. /\ new \in Seq(W \X W) /\ Len(new) = Len(v)
        /\ new[x] = e /\ \A i \in (1 .. Len(v)) \ {x} : new[i] = v[i]
    BY <2>2, <2>6, ReplacedAt
  <2>8. SetAt(v, key, value, new, x)
    BY <1>1, <2>1, <2>2, <2>4, <2>7 DEF SetAt
  <2>9. x \in Nat
    BY <1>1
  <2> QED
    BY <2>5, <2>7, <2>8, <2>9 DEF IsSet
<1> QED
  BY <1>3, <1>4

LEMMA ItemIsValue ==
    ASSUME NEW W, NEW v \in Seq(W \X W), NEW key \in W, NEW value \in W
    PROVE  SetItem(v, key, value) \in Seq(W \X W)
<1>1. PICK new \in Seq(W \X W), x \in Nat : IsSet(v, key, value, new, x)
  BY SetIs
<1>2. new = SetItem(v, key, value)
  BY <1>1 DEF IsSet
<1> QED
  BY <1>2

(* OptionValue::set(): what is set is what get() returns, wherever the key *)
(* was, also if it was there without a value or more than once.            *)
THEOREM ItemReadsBack ==
    ASSUME NEW W, NEW v \in Seq(W \X W), NEW key \in W, NEW value \in W \ {Bare}, NEW fallback
    PROVE  GetOr(SetItem(v, key, value), key, fallback) = value
<1>1. PICK new \in Seq(W \X W), x \in Nat : IsSet(v, key, value, new, x)
  BY SetIs
<1>2. /\ x \in 1 .. Len(new) /\ new[x][1] = key /\ new[x][2] = value
      /\ \A i \in (1 .. Len(v)) \ {x} : new[i] = v[i]
      /\ \A y \in 1 .. Len(v) : v[y][1] = key => x <= y
  BY <1>1 DEF SetAt, IsSet, With
<1>3. Len(new) = Len(v) \/ (x = Len(v) + 1 /\ Len(new) = Len(v) + 1)
  BY <1>1 DEF SetAt, IsSet
<1>4. x \in Given(new, key)
  BY <1>2 DEF Given
<1>5. \A y \in Given(new, key) : x <= y
  <2> SUFFICES ASSUME NEW y \in 1 .. Len(new), new[y][1] = key PROVE x <= y
    BY DEF Given
  <2>1. CASE y \in 1 .. Len(v) /\ y # x
    BY <1>2, <2>1
  <2>2. CASE y = x \/ y \notin 1 .. Len(v)
    BY <1>2, <1>3, <2>2
  <2> QED
    BY <2>1, <2>2
<1>6. GetOr(new, key, fallback) = new[x][2]
  BY <1>2, <1>4, <1>5, GetIs
<1> QED
  BY <1>1, <1>2, <1>6 DEF IsSet

(* And every other key of the line is read as before.                      *)
THEOREM OtherItemsStay ==
    ASSUME NEW W, NEW v \in Seq(W \X W), NEW key \in W, NEW value \in W,
           NEW other, other # key, NEW fallback
    PROVE  /\ GetOr(SetItem(v, key, value), other, fallback) = GetOr(v, other, fallback)
           /\ Has(SetItem(v, key, value), other) <=> Has(v, other)
<1>1. PICK new \in Seq(W \X W), x \in Nat : IsSet(v, key, value, new, x)
  BY SetIs
<1>2. /\ x \in 1 .. Len(new) /\ new[x][1] = key
      /\ \A i \in (1 .. Len(v)) \ {x} : new[i] = v[i]
  BY <1>1 DEF SetAt, IsSet
<1>3. \/ x = Len(v) + 1 /\ Len(new) = Len(v) + 1
      \/ x \in 1 .. Len(v) /\ v[x][1] = key /\ Len(new) = Len(v)
  BY <1>1 DEF SetAt, IsSet, With
<1>4. \A i \in 1 .. Len(new) : new[i][1] = other => i \in 1 .. Len(v) /\ new[i] = v[i]
  BY <1>2, <1>3
<1>5. \A i \in 1 .. Len(v) : v[i][1] = other => i \in 1 .. Len(new) /\ new[i] = v[i]
  BY <1>2, <1>3
<1>6. Given(new, other) = Given(v, other) /\ With(new, other) = With(v, other)
  BY <1>4, <1>5 DEF Given, With
<1>7. GetOr(new, other, fallback) = GetOr(v, other, fallback)
  <2>1. CASE Given(v, other) = {}
    BY <1>2, <1>6, <2>1, GetIs
  <2>2. CASE Given(v, other) # {}
    <3>1. Given(v, other) \in SUBSET Nat
      BY Places
    <3>2. PICK y \in Given(v, other) : \A z \in Given(v, other) : y <= z
      BY <2>2, <3>1, MinIs
    <3>3. new[y] = v[y]
      BY <1>5 DEF Given
    <3>4. GetOr(v, other, fallback) = v[y][2]
      BY <3>2, GetIs
    <3>5. GetOr(new, other, fallback) = new[y][2]
      BY <1>2, <1>6, <3>2, GetIs
    <3> QED
      BY <3>3, <3>4, <3>5
  <2> QED
    BY <2>1, <2>2
<1>8. Has(new, other) <=> Has(v, other)
  <2>1. \A u \in Seq(W \X W) : Has(u, other) <=> With(u, other) # {}
    <3> TAKE u \in Seq(W \X W)
    <3>1. DOMAIN u = 1 .. Len(u)
      OBVIOUS
    <3> QED
      BY <3>1 DEF Has, With
  <2> QED
    BY <1>2, <1>6, <2>1
<1> QED
  BY <1>1, <1>7, <1>8 DEF IsSet

(* The same with the key that an item without one has, as a parameter.     *)
FirstIs(v, none, value) == v # <<>> /\ v[1][1] = none /\ v[1][2] = value

LEMMA NotEmpty ==
    ASSUME NEW T, NEW v \in Seq(T)
    PROVE  /\ v # <<>> => 1 \in 1 .. Len(v) /\ v[1] \in T
           /\ \A i \in DOMAIN v : v # <<>>
           /\ \A i \in 1 .. Len(v) : v # <<>>
  OBVIOUS

LEMMA FirstSet ==
    ASSUME NEW W, NEW none \in W, NEW v \in Seq(W \X W), NEW value \in W
    PROVE  /\ v # <<>> /\ v[1][1] = none => FirstIs([v EXCEPT ![1][2] = value], none, value)
           /\ FirstIs(<<<<none, value>>>> \o v, none, value)
<1>1. ASSUME v # <<>> , v[1][1] = none
      PROVE  FirstIs([v EXCEPT ![1][2] = value], none, value)
  <2>1. v[1] \in W \X W /\ 1 \in 1 .. Len(v)
    BY <1>1, NotEmpty
  <2>0. PICK f \in W \X W : f = v[1]
    BY <2>1
  <2>2. PICK e \in W \X W : e = [f EXCEPT ![2] = value] /\ e[1] = f[1] /\ e[2] = value
    BY PairChanged
  <2>3. PICK new : new = [v EXCEPT ![1][2] = value]
    OBVIOUS
  <2>4. new = [v EXCEPT ![1] = e]
    BY <2>0, <2>2, <2>3
  <2>5. new \in Seq(W \X W) /\ Len(new) = Len(v) /\ new[1] = e
    BY <2>1, <2>4, ReplacedAt
  <2>6. new # <<>>
    BY <2>1, <2>5, NotEmpty
  <2> QED
    BY <1>1, <2>0, <2>2, <2>3, <2>5, <2>6 DEF FirstIs
<1>2. FirstIs(<<<<none, value>>>> \o v, none, value)
  <2>1. PICK e \in W \X W : e = <<none, value>> /\ e[1] = none /\ e[2] = value
    BY Pairs
  <2>2. <<e>> \o v # <<>> /\ (<<e>> \o v)[1] = e
    OBVIOUS
  <2> QED
    BY <2>1, <2>2 DEF FirstIs
<1> QED
  BY <1>1, <1>2

LEMMA ImpliedReadsBack ==
    ASSUME NEW W, "" \in W, NEW v \in Seq(W \X W), NEW value \in W
    PROVE  Implied(SetImplied(v, value)) = value
<1>1. FirstIs(SetImplied(v, value), "", value)
  BY FirstSet DEF SetImplied
<1> QED
  BY <1>1 DEF Implied, FirstIs

NoneFirst(v, none) == v[1][1] = none => v[1][2] = none

(* What set() of another key leaves at the front.                          *)
LEMMA FirstStays ==
    ASSUME NEW W, NEW none \in W, NEW v \in Seq(W \X W), NEW key \in W, key # none,
           NEW value \in W, Has(v, key), NoneFirst(v, none)
    PROVE  NoneFirst(SetItem(v, key, value), none)
<1>1. PICK new \in Seq(W \X W), x \in Nat : IsSet(v, key, value, new, x)
  BY SetIs
<1>2. /\ x \in 1 .. Len(new) /\ new[x][1] = key
      /\ \A i \in (1 .. Len(v)) \ {x} : new[i] = v[i]
  BY <1>1 DEF SetAt, IsSet
<1>3. 1 \in 1 .. Len(v)
  BY NotEmpty DEF Has
<1>4. CASE x = 1
  BY <1>1, <1>2, <1>4 DEF IsSet, NoneFirst
<1>5. CASE x # 1
  BY <1>1, <1>2, <1>3, <1>5 DEF IsSet, NoneFirst
<1> QED
  BY <1>4, <1>5

IsLong(v, key, value, none) == NoneFirst(v, none) /\ GetOr(v, key, none) = value

LEMMA ItemIsLong ==
    ASSUME NEW W, NEW none \in W, NEW v \in Seq(W \X W), NEW key \in W, key # none,
           NEW value \in W \ {Bare}, Has(v, key), NoneFirst(v, none)
    PROVE  IsLong(SetItem(v, key, value), key, value, none)
<1>1. NoneFirst(SetItem(v, key, value), none)
  BY FirstStays
<1>2. GetOr(SetItem(v, key, value), key, none) = value
  BY ItemReadsBack
<1> QED
  BY <1>1, <1>2 DEF IsLong

LongReads(v, key, value) == GetLong(SetLong(v, key, value), key) = value

(* OptionValue::setLong(): the value that is set is the one that is read,  *)
(* whichever of the two forms the line had.                                *)
THEOREM LongReadsBack ==
    ASSUME NEW W, "" \in W, NEW v \in Seq(W \X W), NEW key \in W, key # "",
           NEW value \in W \ {Bare}, value # ""
    PROVE  LongReads(v, key, value)
<1>1. CASE Implied(v) = "" /\ Has(v, key)
  <2>1. Has(v, key)
    BY <1>1
  <2>2. v # <<>>
    BY <2>1, NotEmpty DEF Has
  <2>3. NoneFirst(v, "")
    BY <1>1, <2>2 DEF Implied, NoneFirst
  <2>4. IsLong(SetItem(v, key, value), key, value, "")
    BY <2>1, <2>3, ItemIsLong
  <2>5. Implied(SetItem(v, key, value)) = ""
    BY <2>4 DEF Implied, NoneFirst, IsLong
  <2>6. SetLong(v, key, value) = SetItem(v, key, value)
    BY <1>1 DEF SetLong
  <2> QED
    BY <2>4, <2>5, <2>6 DEF GetLong, Get, IsLong, LongReads
<1>2. CASE ~(Implied(v) = "" /\ Has(v, key))
  <2>1. SetLong(v, key, value) = SetImplied(v, value)
    BY <1>2 DEF SetLong
  <2>2. Implied(SetImplied(v, value)) = value
    BY ImpliedReadsBack
  <2> QED
    BY <2>1, <2>2 DEF GetLong, LongReads
<1> QED
  BY <1>1, <1>2

LEMMA ImpliedIsValue ==
    ASSUME NEW W, NEW none \in W, NEW v \in Seq(W \X W), NEW value \in W
    PROVE  /\ v # <<>> => [v EXCEPT ![1][2] = value] \in Seq(W \X W)
           /\ <<<<none, value>>>> \o v \in Seq(W \X W)
<1>1. ASSUME v # <<>> PROVE [v EXCEPT ![1][2] = value] \in Seq(W \X W)
  <2>1. v[1] \in W \X W /\ 1 \in 1 .. Len(v)
    BY <1>1, NotEmpty
  <2>2. PICK f \in W \X W : f = v[1]
    BY <2>1
  <2>3. PICK e \in W \X W : e = [f EXCEPT ![2] = value] /\ e[1] = f[1] /\ e[2] = value
    BY PairChanged
  <2>4. [v EXCEPT ![1][2] = value] = [v EXCEPT ![1] = e]
    BY <2>2, <2>3
  <2> QED
    BY <2>1, <2>4
<1>2. <<<<none, value>>>> \o v \in Seq(W \X W)
  <2>1. PICK e \in W \X W : e = <<none, value>>
    BY Pairs
  <2>2. <<e>> \o v \in Seq(W \X W)
    OBVIOUS
  <2> QED
    BY <2>1, <2>2
<1> QED
  BY <1>1, <1>2

LEMMA LongIsValue ==
    ASSUME NEW W, "" \in W, NEW v \in Seq(W \X W), NEW key \in W, NEW value \in W
    PROVE  SetLong(v, key, value) \in Seq(W \X W)
<1>1. SetItem(v, key, value) \in Seq(W \X W)
  BY ItemIsValue
<1>2. SetImplied(v, value) \in Seq(W \X W)
  BY ImpliedIsValue DEF SetImplied
<1> QED
  BY <1>1, <1>2 DEF SetLong

-----------------------------------------------------------------------------
(* Lines                                                                   *)

Line(K, N, V) == [kind : K, name : N, val : V]

LEMMA LineChanged ==
    ASSUME NEW K, NEW N, NEW V, NEW l \in Line(K, N, V), NEW w \in V
    PROVE  \E e \in Line(K, N, V) : /\ e = [l EXCEPT !.val = w] /\ e.val = w
                                    /\ e.kind = l.kind /\ e.name = l.name
<1>1. [l EXCEPT !.val = w] \in Line(K, N, V)
  BY DEF Line
<1>2. /\ [l EXCEPT !.val = w].val = w
      /\ [l EXCEPT !.val = w].kind = l.kind /\ [l EXCEPT !.val = w].name = l.name
  BY DEF Line
<1> QED
  BY <1>1, <1>2

IsInserted(s, at, e, new) ==
    /\ Len(new) = Len(s) + 1 /\ new[at] = e
    /\ \A i \in 1 .. at - 1 : new[i] = s[i]
    /\ \A i \in at + 1 .. Len(s) + 1 : new[i] = s[i - 1]

LEMMA Inserted ==
    ASSUME NEW T, NEW s \in Seq(T), NEW at \in 1 .. Len(s) + 1, NEW e \in T, NEW new,
           new = InsertAt(s, at, e)
    PROVE  new \in Seq(T) /\ IsInserted(s, at, e, new)
<1>1. PICK p \in Seq(T) : /\ p = SubSeq(s, 1, at - 1) /\ Len(p) = at - 1
                          /\ \A i \in 1 .. at - 1 : p[i] = s[i]
  <2>1. /\ SubSeq(s, 1, at - 1) \in Seq(T)
        /\ Len(SubSeq(s, 1, at - 1)) = IF 1 <= at - 1 THEN at - 1 - 1 + 1 ELSE 0
        /\ \A i \in 1 .. at - 1 - 1 + 1 : SubSeq(s, 1, at - 1)[i] = s[1 + i - 1]
    BY SubSeqProperties
  <2>2. Len(SubSeq(s, 1, at - 1)) = at - 1
    BY <2>1
  <2>3. \A i \in 1 .. at - 1 : i \in 1 .. at - 1 - 1 + 1 /\ 1 + i - 1 = i
    OBVIOUS
  <2> QED
    BY <2>1, <2>2, <2>3
<1>2. PICK q \in Seq(T) : /\ q = SubSeq(s, at, Len(s)) /\ Len(q) = Len(s) + 1 - at
                          /\ \A i \in 1 .. Len(q) : q[i] = s[at + i - 1]
  <2>1. /\ SubSeq(s, at, Len(s)) \in Seq(T)
        /\ Len(SubSeq(s, at, Len(s))) = IF at <= Len(s) THEN Len(s) - at + 1 ELSE 0
        /\ \A i \in 1 .. Len(s) - at + 1 : SubSeq(s, at, Len(s))[i] = s[at + i - 1]
    BY SubSeqProperties
  <2>2. Len(SubSeq(s, at, Len(s))) = Len(s) + 1 - at /\ Len(s) - at + 1 = Len(s) + 1 - at
    BY <2>1
  <2> QED
    BY <2>1, <2>2
<1>3. new = p \o <<e>> \o q
  BY <1>1, <1>2 DEF InsertAt
<1>4. PICK r \in Seq(T) : /\ r = p \o <<e>> /\ Len(r) = at /\ r[at] = e
                          /\ \A i \in 1 .. at - 1 : r[i] = p[i]
  <2>0. Append(p, e) \in Seq(T)
    OBVIOUS
  <2>1. PICK r \in Seq(T) : r = Append(p, e)
    BY <2>0
  <2>2. r = p \o <<e>>
    BY <2>1
  <2>3. Len(r) = Len(p) + 1 /\ r[Len(p) + 1] = e /\ \A i \in 1 .. Len(p) : r[i] = p[i]
    BY <2>1
  <2>4. Len(p) + 1 = at /\ Len(p) = at - 1
    BY <1>1
  <2> QED
    BY <2>2, <2>3, <2>4
<1>5. new = r \o q
  BY <1>3, <1>4
<1>6. /\ new \in Seq(T) /\ Len(new) = at + Len(q)
      /\ \A i \in 1 .. at : new[i] = r[i]
      /\ \A i \in 1 .. Len(q) : new[at + i] = q[i]
  <2>1. /\ r \o q \in Seq(T) /\ Len(r \o q) = Len(r) + Len(q)
        /\ \A i \in 1 .. Len(r) : (r \o q)[i] = r[i]
        /\ \A i \in 1 .. Len(q) : (r \o q)[Len(r) + i] = q[i]
    OBVIOUS
  <2>2. Len(r) = at
    BY <1>4
  <2> QED
    BY <1>5, <2>1, <2>2
<1>7. ASSUME NEW i \in at + 1 .. Len(s) + 1 PROVE new[i] = s[i - 1]
  <2>1. PICK j \in 1 .. Len(q) : i = at + j
    <3>1. i - at \in 1 .. Len(q) /\ i = at + (i - at)
      BY <1>2
    <3> QED
      BY <3>1
  <2>2. new[i] = s[at + j - 1]
    BY <1>2, <1>6, <2>1
  <2>3. at + j - 1 = i - 1
    BY <2>1
  <2> QED
    BY <2>2, <2>3
<1>8. \A i \in 1 .. at - 1 : new[i] = s[i] /\ new[at] = e
  BY <1>1, <1>4, <1>6
<1>9. new[at] = e
  BY <1>4, <1>6
<1> QED
  BY <1>2, <1>6, <1>7, <1>8, <1>9 DEF IsInserted

Is(l, kind, o) ==
    l.kind = kind /\ o = IF kind = "Option" THEN CanonicalName(l.name) ELSE l.name

LinesOf(a, kind, o) == {i \in DOMAIN a : Is(a[i], kind, o)}

FirstLine(a, kind, o) == First(LinesOf(a, kind, o))

LEMMA LinesOfBothKinds ==
    ASSUME NEW a, NEW o
    PROVE  /\ IndexesOf(a, o) = LinesOf(a, "Option", o)
           /\ DirectivesOf(a, o) = LinesOf(a, "Directive", o)
  BY DEF IndexesOf, DirectivesOf, LinesOf, Is

LEMMA LinesAre ==
    ASSUME NEW T, NEW a \in Seq(T), NEW kind, NEW o
    PROVE  /\ LinesOf(a, kind, o) = {i \in 1 .. Len(a) : Is(a[i], kind, o)}
           /\ LinesOf(a, kind, o) \in SUBSET Nat /\ 0 \notin LinesOf(a, kind, o)
<1>1. DOMAIN a = 1 .. Len(a)
  OBVIOUS
<1>2. LinesOf(a, kind, o) = {i \in 1 .. Len(a) : Is(a[i], kind, o)}
  BY <1>1 DEF LinesOf
<1> QED
  BY <1>2

LEMMA FirstIsOf ==
    ASSUME NEW T, NEW a \in Seq(T), NEW kind, NEW o
    PROVE  \/ FirstLine(a, kind, o) = 0 /\ \A i \in 1 .. Len(a) : ~Is(a[i], kind, o)
           \/ /\ FirstLine(a, kind, o) \in 1 .. Len(a) /\ FirstLine(a, kind, o) # 0
              /\ Is(a[FirstLine(a, kind, o)], kind, o)
<1>1. PICK S \in SUBSET (1 .. Len(a)) :
          /\ S = LinesOf(a, kind, o) /\ S = {i \in 1 .. Len(a) : Is(a[i], kind, o)}
  BY LinesAre
<1>2. FirstLine(a, kind, o) = IF S = {} THEN 0 ELSE Min(S)
  BY <1>1 DEF FirstLine, First
<1>3. CASE S = {}
  BY <1>1, <1>2, <1>3
<1>4. CASE S # {}
  <2>1. S \in SUBSET Nat
    OBVIOUS
  <2>2. Min(S) \in S
    BY <1>4, <2>1, MinIs
  <2>3. FirstLine(a, kind, o) \in S
    BY <1>2, <1>4, <2>2
  <2> QED
    BY <1>1, <2>3
<1> QED
  BY <1>3, <1>4

NoneIs(a, kind, o) == \A i \in 1 .. Len(a) : ~Is(a[i], kind, o)

IsFoundAt(a, kind, o, l) ==
    FirstLine(a, kind, o) # 0 /\ a[FirstLine(a, kind, o)] = l

(* A line that is put in where there was none of its option is the one     *)
(* that is found.                                                          *)
LEMMA InsertedIsFound ==
    ASSUME NEW T, NEW a \in Seq(T), NEW at \in 1 .. Len(a) + 1, NEW e \in T, NEW kind, NEW o,
           Is(e, kind, o), NoneIs(a, kind, o)
    PROVE  IsFoundAt(InsertAt(a, at, e), kind, o, e)
<1>1. PICK new : new = InsertAt(a, at, e)
  OBVIOUS
<1>0. new \in Seq(T) /\ IsInserted(a, at, e, new)
  BY <1>1, Inserted
<1>2. /\ new \in Seq(T) /\ Len(new) = Len(a) + 1 /\ new[at] = e
      /\ \A i \in 1 .. at - 1 : new[i] = a[i]
      /\ \A i \in at + 1 .. Len(a) + 1 : new[i] = a[i - 1]
  BY <1>0 DEF IsInserted
<1>3. \A i \in 1 .. Len(new) : Is(new[i], kind, o) => i = at
  <2> SUFFICES ASSUME NEW i \in 1 .. Len(new), i # at PROVE ~Is(new[i], kind, o)
    OBVIOUS
  <2>1. CASE i \in 1 .. at - 1
    BY <1>2, <2>1 DEF NoneIs
  <2>2. CASE i \in at + 1 .. Len(a) + 1
    <3>1. i - 1 \in 1 .. Len(a)
      BY <2>2
    <3> QED
      BY <1>2, <2>2, <3>1 DEF NoneIs
  <2> QED
    BY <1>2, <2>1, <2>2
<1>4. at \in LinesOf(new, kind, o) /\ \A i \in LinesOf(new, kind, o) : at <= i
  <2>1. LinesOf(new, kind, o) = {i \in 1 .. Len(new) : Is(new[i], kind, o)}
    BY <1>2, LinesAre
  <2>2. at \in 1 .. Len(new)
    BY <1>2
  <2> QED
    BY <1>2, <1>3, <2>1, <2>2
<1>5. First(LinesOf(new, kind, o)) = at
  <2>1. LinesOf(new, kind, o) \in SUBSET Nat
    BY <1>2, LinesAre
  <2>2. Min(LinesOf(new, kind, o)) = at
    BY <1>4, <2>1, MinOf
  <2> QED
    BY <1>4, <2>2 DEF First
<1> QED
  BY <1>1, <1>2, <1>5 DEF FirstLine, IsFoundAt

(* A line whose value is replaced is still the one that is found.          *)
LEMMA ReplacedIsFound ==
    ASSUME NEW K, NEW N, NEW V, NEW a \in Seq(Line(K, N, V)), NEW i \in 1 .. Len(a),
           NEW w \in V, NEW kind, NEW o
    PROVE  /\ FirstLine(SetValueAt(a, i, w), kind, o) = FirstLine(a, kind, o)
           /\ SetValueAt(a, i, w)[i].val = w
<1>1. a[i] \in Line(K, N, V)
  OBVIOUS
<1>2. PICK e \in Line(K, N, V) : /\ e = [a[i] EXCEPT !.val = w] /\ e.val = w
                              /\ e.kind = a[i].kind /\ e.name = a[i].name
  BY <1>1, LineChanged
<1>3. PICK new : new = SetValueAt(a, i, w) /\ new = [a EXCEPT ![i] = e]
  BY <1>2 DEF SetValueAt
<1>4. /\ new \in Seq(Line(K, N, V)) /\ Len(new) = Len(a)
      /\ new[i] = e /\ \A j \in (1 .. Len(a)) \ {i} : new[j] = a[j]
  BY <1>3, ReplacedAt
<1>5. \A j \in 1 .. Len(a) : Is(new[j], kind, o) <=> Is(a[j], kind, o)
  BY <1>2, <1>4 DEF Is
<1>6. LinesOf(new, kind, o) = LinesOf(a, kind, o)
  <2>1. LinesOf(new, kind, o) = {j \in 1 .. Len(new) : Is(new[j], kind, o)}
    BY <1>4, LinesAre
  <2>2. LinesOf(a, kind, o) = {j \in 1 .. Len(a) : Is(a[j], kind, o)}
    BY LinesAre
  <2> QED BY <1>4, <1>5, <2>1, <2>2
<1> QED
  BY <1>2, <1>3, <1>4, <1>6 DEF FirstLine

(* The first line that passes a test, or a place at the end.               *)
LEMMA PlaceIs ==
    ASSUME NEW T, NEW a \in Seq(T), NEW S \in SUBSET (1 .. Len(a)), NEW at,
           at = IF S = {} THEN Len(a) + 1 ELSE Min(S)
    PROVE  at \in 1 .. Len(a) + 1
<1>1. S # {} => Min(S) \in S
  <2>1. S \in SUBSET Nat
    OBVIOUS
  <2> QED
    BY <2>1, MinIs
<1> QED
  BY <1>1

LEMMA PositionsAre ==
    ASSUME NEW T, NEW a \in Seq(T), NEW S \in SUBSET (1 .. Len(a))
    PROVE  S \in SUBSET Nat /\ 0 \notin S
  OBVIOUS

LEMMA InsertFirstIs ==
    ASSUME NEW T, NEW a \in Seq(T), NEW line
    PROVE  \E at \in 1 .. Len(a) + 1 : InsertFirst(a, line) = InsertAt(a, at, line)
<1>1. PICK S \in SUBSET (1 .. Len(a)) : S = {i \in 1 .. Len(a) : a[i].kind = "Option"}
  OBVIOUS
<1>2. S \in SUBSET Nat /\ 0 \notin S
  OBVIOUS
<1>3. S # {} => Min(S) # 0
  BY <1>2, MinIs
<1>4. PICK at : at = IF S = {} THEN Len(a) + 1 ELSE Min(S)
  OBVIOUS
<1>5. InsertFirst(a, line) = InsertAt(a, at, line)
  BY <1>1, <1>3, <1>4 DEF InsertFirst, SelectInSeq
<1>6. at \in 1 .. Len(a) + 1
  BY <1>4, PlaceIs
<1> QED
  BY <1>5, <1>6

LEMMA NewLineIs ==
    ASSUME NEW K, NEW N, NEW V, NEW kind \in K, NEW name \in N, NEW v \in V
    PROVE  \E l \in Line(K, N, V) : /\ l = [kind |-> kind, name |-> name, val |-> v]
                                    /\ l.kind = kind /\ l.name = name /\ l.val = v
<1>1. [kind |-> kind, name |-> name, val |-> v] \in Line(K, N, V)
  BY DEF Line
<1> QED
  BY <1>1

LEMMA ValueIs ==
    ASSUME NEW K, NEW N, NEW V, NEW a \in Seq(Line(K, N, V)), NEW i \in 1 .. Len(a)
    PROVE  a[i].val \in V
<1>1. a[i] \in Line(K, N, V)
  OBVIOUS
<1> QED
  BY <1>1 DEF Line

LEMMA NewValueIs ==
    ASSUME NEW W, NEW none \in W, NEW value \in W
    PROVE  /\ <<<<none, value>>>> \in Seq(W \X W)
           /\ <<<<none, value>>>> # <<>>
           /\ <<<<none, value>>>>[1][1] = none /\ <<<<none, value>>>>[1][2] = value
<1>1. PICK e \in W \X W : e = <<none, value>> /\ e[1] = none /\ e[2] = value
  BY Pairs
<1>2. <<e>> \in Seq(W \X W) /\ <<e>> # <<>> /\ <<e>>[1] = e
  OBVIOUS
<1> QED
  BY <1>1, <1>2

IsPut(a, kind, o, v, at, new) ==
    new = IF FirstLine(a, kind, o) = 0
          THEN InsertAt(a, at, [kind |-> kind, name |-> o, val |-> v])
          ELSE SetValueAt(a, FirstLine(a, kind, o), v)

IsFound(new, kind, o, v) ==
    FirstLine(new, kind, o) # 0 /\ new[FirstLine(new, kind, o)].val = v

(* What is set is found: on the line there was, or on the new one.         *)
LEMMA ValueIsFound ==
    ASSUME NEW K, NEW N, NEW V, NEW a \in Seq(Line(K, N, V)), NEW kind \in K, NEW o \in N,
           kind = "Option" => CanonicalName(o) = o, NEW v \in V,
           NEW new, NEW at \in 1 .. Len(a) + 1,
           IsPut(a, kind, o, v, at, new)
    PROVE  IsFound(new, kind, o, v)
<1>1. CASE FirstLine(a, kind, o) = 0
  <2>1. PICK e \in Line(K, N, V) : /\ e = [kind |-> kind, name |-> o, val |-> v]
                                   /\ e.kind = kind /\ e.name = o /\ e.val = v
    BY NewLineIs
  <2>2. Is(e, kind, o)
    BY <2>1 DEF Is
  <2>3. NoneIs(a, kind, o)
    BY <1>1, FirstIsOf DEF NoneIs
  <2>4. new = InsertAt(a, at, e)
    BY <1>1, <2>1 DEF IsPut
  <2>5. IsFoundAt(InsertAt(a, at, e), kind, o, e)
    BY <2>2, <2>3, InsertedIsFound
  <2> QED
    BY <2>1, <2>4, <2>5 DEF IsFound, IsFoundAt
<1>2. CASE FirstLine(a, kind, o) # 0
  <2>1. PICK i : i = FirstLine(a, kind, o)
    OBVIOUS
  <2>2. i \in 1 .. Len(a)
    BY <1>2, <2>1, FirstIsOf
  <2>3. new = SetValueAt(a, i, v)
    BY <1>2, <2>1 DEF IsPut
  <2>4. FirstLine(new, kind, o) = FirstLine(a, kind, o) /\ new[i].val = v
    BY <2>2, <2>3, ReplacedIsFound
  <2> QED
    BY <1>2, <2>1, <2>4 DEF IsFound
<1> QED
  BY <1>1, <1>2

Kinds == {"Option", "Directive", "Comment", "Blank"}

LEMMA NameIsLong ==
    ASSUME NEW W, "" \in W, "guest" \in W, NEW v \in Seq(W \X W),
           NEW name \in W \ {Bare}, name # ""
    PROVE  GetLong(SetLong(v, "guest", name), "guest") = name
<1>1. PICK key \in W : key = "guest" /\ key # ""
  OBVIOUS
<1>2. LongReads(v, key, name)
  BY <1>1, LongReadsBack
<1> QED
  BY <1>1, <1>2 DEF LongReads

(* VmConfig::setName(): the name that is set is the name of the VM, in the *)
(* form the line had, or on a line of its own.                             *)
THEOREM NameReadsBack ==
    ASSUME NEW N, "name" \in N, NEW W, "" \in W, "guest" \in W,
           NEW a \in Seq(Line(Kinds, N, Seq(W \X W))),
           NEW name \in W \ {Bare}, name # ""
    PROVE  Name(SetName(a, name)) = name
<1>1. PICK i : i = IndexOf(a, "name") /\ i = FirstLine(a, "Option", "name")
  BY LinesOfBothKinds DEF IndexOf, FirstLine
<1>2. PICK v : v = IF i = 0 THEN <<<<"", name>>>> ELSE SetLong(a[i].val, "guest", name)
  OBVIOUS
<1>3. v \in Seq(W \X W) /\ GetLong(v, "guest") = name
  <2>1. CASE i = 0
    <3>1. v = <<<<"", name>>>>
      BY <1>2, <2>1
    <3>2. v \in Seq(W \X W) /\ v # <<>> /\ v[1][1] = "" /\ v[1][2] = name
      BY <3>1, NewValueIs
    <3> QED
      BY <3>2 DEF GetLong, Implied
  <2>2. CASE i # 0
    <3>1. i \in 1 .. Len(a)
      BY <1>1, <2>2, FirstIsOf
    <3>2. PICK u \in Seq(W \X W) : u = a[i].val
      BY <3>1, ValueIs
    <3>3. v = SetLong(u, "guest", name)
      BY <1>2, <2>2, <3>2
    <3>4. "guest" # ""
      OBVIOUS
    <3>5. GetLong(SetLong(u, "guest", name), "guest") = name
      BY <3>4, NameIsLong
    <3>6. SetLong(u, "guest", name) \in Seq(W \X W)
      BY LongIsValue
    <3> QED
      BY <3>3, <3>5, <3>6
  <2> QED
    BY <2>1, <2>2
<1>4. PICK at \in 1 .. Len(a) + 1 :
          InsertFirst(a, Option("name", v)) = InsertAt(a, at, Option("name", v))
  BY InsertFirstIs
<1>5. SetName(a, name) =
          IF FirstLine(a, "Option", "name") = 0
          THEN InsertAt(a, at, [kind |-> "Option", name |-> "name", val |-> v])
          ELSE SetValueAt(a, FirstLine(a, "Option", "name"), v)
  BY <1>1, <1>2, <1>4 DEF SetName, Option
<1>6. PICK new : new = SetName(a, name)
  OBVIOUS
<1>7. IsFound(new, "Option", "name", v)
  <2>0. IsPut(a, "Option", "name", v, at, new)
    BY <1>5, <1>6 DEF IsPut
  <2>1. "Option" \in Kinds /\ CanonicalName("name") = "name"
    BY DEF Kinds, CanonicalName
  <2> QED
    BY <1>3, <2>0, <2>1, ValueIsFound
<1>8. IndexOf(new, "name") = FirstLine(new, "Option", "name")
  BY LinesOfBothKinds DEF IndexOf, FirstLine
<1> QED
  BY <1>3, <1>6, <1>7, <1>8 DEF Name, IsFound

(* VmConfig::setQemuBinary(): the path that is set is the one VMs start,   *)
(* but for a path in the home folder, which is read in full.               *)
THEOREM QemuReadsBack ==
    ASSUME NEW N, "qemu" \in N, NEW W, "" \in W,
           NEW a \in Seq(Line(Kinds, N, Seq(W \X W))),
           NEW path \in W, path # ""
    PROVE  QemuBinary(SetQemuBinary(a, path)) = Expanded(path)
<1>1. \A c : First(DirectivesOf(c, "qemu")) = FirstLine(c, "Directive", "qemu")
  BY LinesOfBothKinds DEF FirstLine
<1>2. PICK v : v = <<<<"", path>>>>
  OBVIOUS
<1>3. v \in Seq(W \X W) /\ v # <<>> /\ v[1][1] = "" /\ v[1][2] = path
  BY <1>2, NewValueIs
<1>4. PICK S \in SUBSET (1 .. Len(a)) : S = {i \in 1 .. Len(a) : a[i].kind # "Comment"}
  OBVIOUS
<1>5. S \in SUBSET Nat /\ 0 \notin S
  BY PositionsAre
<1>6. S # {} => Min(S) # 0
  BY <1>5, MinIs
<1>7. PICK at : at = IF S = {} THEN Len(a) + 1 ELSE Min(S)
  OBVIOUS
<1>8. at \in 1 .. Len(a) + 1
  BY <1>7, PlaceIs
<1>9. SetQemuBinary(a, path) =
          IF FirstLine(a, "Directive", "qemu") = 0
          THEN InsertAt(a, at, [kind |-> "Directive", name |-> "qemu", val |-> v])
          ELSE SetValueAt(a, FirstLine(a, "Directive", "qemu"), v)
  BY <1>1, <1>2, <1>4, <1>6, <1>7 DEF SetQemuBinary, Directive, SelectInSeq
<1>10. PICK new : new = SetQemuBinary(a, path)
  OBVIOUS
<1>11. IsFound(new, "Directive", "qemu", v)
  <2>0. IsPut(a, "Directive", "qemu", v, at, new)
    BY <1>9, <1>10 DEF IsPut
  <2>1. "Directive" \in Kinds /\ "Directive" # "Option"
    BY DEF Kinds
  <2> QED
    BY <1>3, <1>8, <2>0, <2>1, ValueIsFound
<1>12. Implied(v) = path
  BY <1>3 DEF Implied
<1> QED
  BY <1>1, <1>10, <1>11, <1>12 DEF QemuBinary, IsFound

-----------------------------------------------------------------------------
(* Templates: those of the computer, some of them newer.                   *)
SystemFits(sys) ==
    /\ DOMAIN sys \subseteq DOMAIN Templates
    /\ \A name \in DOMAIN sys :
          /\ IsContent(sys[name])
          /\ sys[name].fmt = Templates[name].fmt
          /\ sys[name].head # Templates[name].head =>
                Templates[name].head = "code" /\ sys[name].head = "newer code"

LEMMA ListIs ==
    ASSUME NEW sys, NEW d, NEW id, NEW a
    PROVE  FirmwareList(sys, d, id, a) = {Entry(sys, d, id, a, i) : i \in FlashIn(id, a)}
  BY DEF FirmwareList

LEMMA InPaths ==
    ASSUME NEW id \in Ids
    PROVE  Folders[id] \subseteq Paths
  BY DEF Paths, Folders

HasTemplate(f) == f.template # ""
HasRole(f) == f.role \in {"Code", "Vars"}

LEMMA EntryIs ==
    ASSUME NEW sys, NEW d, NEW id, NEW a, NEW i
    PROVE  /\ Entry(sys, d, id, a, i).role = FlashFile(d, id, a, i).role
           /\ HasRole(Entry(sys, d, id, a, i))
           /\ Entry(sys, d, id, a, i).place = FlashPlace(id, a, i)
           /\ FlashFile(d, id, a, i).place = FlashPlace(id, a, i)
           /\ Entry(sys, d, id, a, i).format = FlashFile(d, id, a, i).format
           /\ FlashFile(d, id, a, i).format = FormatOf(d, a, i, FlashPlace(id, a, i))
           /\ Entry(sys, d, id, a, i).template =
                  TemplateOf(sys, FlashFile(d, id, a, i), CodeName(a))
  BY DEF Entry, WithTemplate, FlashFile, HasRole

(* A file that keeps its format keeps its entry.                           *)
LEMMA EntryStays ==
    ASSUME NEW sys, NEW d, NEW e, NEW id, NEW a, NEW i,
           \/ /\ FlashPlace(id, a, i) \notin DOMAIN d
              /\ FlashPlace(id, a, i) \notin DOMAIN e
           \/ /\ FlashPlace(id, a, i) \in DOMAIN d /\ FlashPlace(id, a, i) \in DOMAIN e
              /\ d[FlashPlace(id, a, i)].fmt = e[FlashPlace(id, a, i)].fmt
    PROVE  Entry(sys, e, id, a, i) = Entry(sys, d, id, a, i)
<1> DEFINE p == FlashPlace(id, a, i)
<1>1. FormatOf(e, a, i, p) = FormatOf(d, a, i, p)
  BY DEF FormatOf
<1>2. FlashFile(e, id, a, i) = FlashFile(d, id, a, i)
  BY <1>1 DEF FlashFile
<1> QED BY <1>2 DEF Entry

-----------------------------------------------------------------------------
(* The template of a file                                                  *)

LEMMA LeastNumber ==
    ASSUME NEW S \in SUBSET Nat, S # {}
    PROVE  \E n \in S : \A m \in S : n <= m
<1>1. PICK n \in S : \A m \in S : ~ (<<m, n>> \in OpToRel(<, Nat))
  BY NatLessThanWellFounded, WFMin, Zenon
<1>2. \A m \in S : ~ (m < n)
  BY <1>1 DEF OpToRel
<1> QED BY <1>2

Fit(sys, file, codeName) ==
    {fw \in Firmwares : /\ fw.arch = host /\ Rank(file, fw, codeName) > 0
                        /\ TemplateName(file, fw) \in DOMAIN sys}

Best(sys, file, codeName) ==
    {fw \in Fit(sys, file, codeName) : \A other \in Fit(sys, file, codeName) :
        Rank(file, other, codeName) <= Rank(file, fw, codeName)}

FirstOfBest(sys, file, codeName) ==
    CHOOSE fw \in Best(sys, file, codeName) :
        \A other \in Best(sys, file, codeName) : fw.order <= other.order

LEMMA TemplateIs ==
    ASSUME NEW sys, NEW file, NEW codeName
    PROVE  TemplateOf(sys, file, codeName) =
               IF Fit(sys, file, codeName) = {} THEN ""
               ELSE TemplateName(file, FirstOfBest(sys, file, codeName))
  BY DEF TemplateOf, Fit, Best, FirstOfBest

LEMMA RankOfCode ==
    ASSUME NEW file, file.role = "Code", NEW fw, NEW codeName
    PROVE  Rank(file, fw, codeName) = IF fw.code = file.name THEN 3 ELSE 0
  BY DEF Rank

OfCode(fw, codeName) == codeName # "" /\ fw.code = codeName

LEMMA RankOfVars ==
    ASSUME NEW file, file.role = "Vars", NEW fw, NEW codeName
    PROVE  /\ fw.vars = file.name /\ OfCode(fw, codeName) => Rank(file, fw, codeName) = 3
           /\ fw.vars = file.name /\ ~OfCode(fw, codeName) => Rank(file, fw, codeName) = 2
           /\ fw.vars # file.name /\ OfCode(fw, codeName) /\ fw.format = file.format =>
                  Rank(file, fw, codeName) = 1
           /\ fw.vars # file.name /\ ~(OfCode(fw, codeName) /\ fw.format = file.format) =>
                  Rank(file, fw, codeName) = 0
  BY DEF Rank, OfCode

LEMMA Positive ==
    /\ \A n \in {2, 3} : n > 0
    /\ \A n : n > 0 => n # 0
  OBVIOUS

LEMMA RankIsNat ==
    ASSUME NEW file, HasRole(file), NEW fw, NEW codeName
    PROVE  Rank(file, fw, codeName) \in {0, 1, 2, 3}
<1>1. CASE file.role = "Code"
  BY <1>1, RankOfCode
<1>2. CASE file.role = "Vars"
  BY <1>2, RankOfVars, Zenon
<1> QED BY <1>1, <1>2 DEF HasRole

(* The first of the best fits.                                             *)
LEMMA FirstFits ==
    ASSUME NEW sys, NEW file, HasRole(file), NEW codeName,
           Fit(sys, file, codeName) # {}
    PROVE  FirstOfBest(sys, file, codeName) \in Best(sys, file, codeName)
<1> DEFINE F == Fit(sys, file, codeName)
           R(fw) == Rank(file, fw, codeName)
           Short == {3 - R(fw) : fw \in F}
           B == Best(sys, file, codeName)
           Orders == {fw.order : fw \in B}
<1>1. \A fw \in F : R(fw) \in {0, 1, 2, 3}
  BY RankIsNat
<1>2. Short \in SUBSET Nat /\ Short # {}
  BY <1>1
<1>3. PICK n \in Short : \A m \in Short : n <= m
  BY <1>2, LeastNumber
<1>4. PICK fw \in F : n = 3 - R(fw)
  BY <1>3
<1>5. \A other \in F : R(other) <= R(fw)
  BY <1>1, <1>3, <1>4
<1>6. fw \in B
  BY <1>5 DEF Best
<1>7. B \subseteq Firmwares
  BY DEF Best, Fit
<1>8. Orders \in SUBSET Nat /\ Orders # {}
  BY <1>6, <1>7, TemplatesAssumption
<1>9. PICK o \in Orders : \A m \in Orders : o <= m
  BY <1>8, LeastNumber
<1>10. \E first \in B : \A other \in B : first.order <= other.order
  BY <1>9
<1> QED BY <1>10 DEF FirstOfBest

LEMMA TemplateThere ==
    ASSUME NEW sys, NEW file, HasRole(file), NEW codeName,
           TemplateOf(sys, file, codeName) # ""
    PROVE  /\ Fit(sys, file, codeName) # {}
           /\ FirstOfBest(sys, file, codeName) \in Best(sys, file, codeName)
           /\ TemplateOf(sys, file, codeName) =
                  TemplateName(file, FirstOfBest(sys, file, codeName))
           /\ TemplateOf(sys, file, codeName) \in DOMAIN sys
<1>1. Fit(sys, file, codeName) # {}
  BY TemplateIs
<1>2. FirstOfBest(sys, file, codeName) \in Best(sys, file, codeName)
  BY <1>1, FirstFits
<1>3. TemplateOf(sys, file, codeName) = TemplateName(file, FirstOfBest(sys, file, codeName))
  BY <1>1, TemplateIs
<1> QED BY <1>1, <1>2, <1>3 DEF Best, Fit

(* Of two files with the same name and role, that rank the same.           *)
LEMMA SameRanks ==
    ASSUME NEW sys, NEW f, NEW g, f.role = g.role, f.name = g.name, NEW codeName,
           \A fw \in Firmwares : Rank(f, fw, codeName) = Rank(g, fw, codeName)
    PROVE  TemplateOf(sys, f, codeName) = TemplateOf(sys, g, codeName)
<1>1. \A fw : TemplateName(f, fw) = TemplateName(g, fw)
  BY DEF TemplateName
<1>2. Fit(sys, f, codeName) = Fit(sys, g, codeName)
  BY <1>1 DEF Fit
<1>3. Best(sys, f, codeName) = Best(sys, g, codeName)
  BY <1>2 DEF Best, Fit
<1>4. FirstOfBest(sys, f, codeName) = FirstOfBest(sys, g, codeName)
  BY <1>3 DEF FirstOfBest
<1> QED BY <1>1, <1>2, <1>4, TemplateIs

(* A descriptor that names the file decides, whatever its format.          *)
LEMMA NamedIsBest ==
    ASSUME NEW sys, NEW f, NEW g, f.role = "Vars", g.role = "Vars", f.name = g.name,
           NEW codeName, NEW named \in Fit(sys, f, codeName), named.vars = f.name
    PROVE  Best(sys, f, codeName) \subseteq Best(sys, g, codeName)
<1> SUFFICES ASSUME NEW fw \in Best(sys, f, codeName)
             PROVE  fw \in Best(sys, g, codeName)
  OBVIOUS
<1> DEFINE R(file, x) == Rank(file, x, codeName)
<1>1. ASSUME NEW x, x.vars = f.name
      PROVE  R(f, x) = R(g, x) /\ R(f, x) \in {2, 3}
  <2>1. OfCode(x, codeName) => R(f, x) = 3 /\ R(g, x) = 3
    BY <1>1, RankOfVars, Zenon
  <2>2. ~OfCode(x, codeName) => R(f, x) = 2 /\ R(g, x) = 2
    BY <1>1, RankOfVars, Zenon
  <2> QED BY <2>1, <2>2
<1>2. ASSUME NEW x, x.vars # f.name
      PROVE  R(f, x) \in {0, 1} /\ R(g, x) \in {0, 1}
  BY <1>2, RankOfVars, Zenon
<1>3. ASSUME NEW x
      PROVE  R(f, x) \in {0, 1, 2, 3} /\ R(g, x) \in {0, 1, 2, 3}
  BY RankIsNat DEF HasRole
<1>4. fw \in Fit(sys, f, codeName) /\ R(f, named) <= R(f, fw)
  BY DEF Best
<1>5. fw.vars = f.name
  BY <1>1, <1>2, <1>3, <1>4
<1>6. \A x : TemplateName(f, x) = x.vars /\ TemplateName(g, x) = x.vars
  BY DEF TemplateName
<1>7. fw \in Fit(sys, g, codeName)
  BY <1>1, <1>4, <1>5, <1>6 DEF Fit
<1>8. ASSUME NEW other \in Fit(sys, g, codeName)
      PROVE  R(g, other) <= R(g, fw)
  <2>1. CASE other.vars = f.name
    <3>1. other \in Fit(sys, f, codeName)
      BY <1>1, <1>6, <2>1 DEF Fit
    <3>2. R(f, other) <= R(f, fw)
      BY <3>1 DEF Best
    <3> QED BY <1>1, <1>5, <2>1, <3>2
  <2>2. CASE other.vars # f.name
    BY <1>1, <1>2, <1>3, <1>5, <2>2
  <2> QED BY <2>1, <2>2
<1> QED BY <1>7, <1>8 DEF Best

(* A file keeps its template when the template is copied into it.          *)
LEMMA TemplateStays ==
    ASSUME NEW sys, SystemFits(sys), NEW f, NEW g,
           f.role = g.role, HasRole(f), f.name = g.name, NEW codeName,
           TemplateOf(sys, f, codeName) # "",
           \/ g.format = f.format
           \/ g.format = sys[TemplateOf(sys, f, codeName)].fmt
    PROVE  TemplateOf(sys, g, codeName) = TemplateOf(sys, f, codeName)
<1> DEFINE first == FirstOfBest(sys, f, codeName)
<1>1. /\ Fit(sys, f, codeName) # {} /\ first \in Best(sys, f, codeName)
      /\ TemplateOf(sys, f, codeName) = TemplateName(f, first)
      /\ TemplateOf(sys, f, codeName) \in DOMAIN sys
  BY TemplateThere
<1>2. first \in Fit(sys, f, codeName) /\ first \in Firmwares
  BY <1>1 DEF Best, Fit
<1>3. CASE f.role = "Code"
  <2>1. ASSUME NEW fw \in Firmwares
        PROVE  Rank(f, fw, codeName) = Rank(g, fw, codeName)
    BY <1>3, RankOfCode, Zenon
  <2> QED BY <2>1, SameRanks
<1>4. CASE f.role = "Vars" /\ \E fw \in Fit(sys, f, codeName) : fw.vars = f.name
  <2>1. PICK named \in Fit(sys, f, codeName) : named.vars = f.name
    BY <1>4
  <2>2. named \in Fit(sys, g, codeName)
    <3>1. Rank(g, named, codeName) \in {2, 3}
      BY <1>4, <2>1, RankOfVars, Zenon
    <3>2. TemplateName(f, named) = TemplateName(g, named)
      BY DEF TemplateName
    <3>3. Rank(g, named, codeName) > 0
      BY <3>1, Positive, Zenon
    <3> QED BY <2>1, <3>2, <3>3 DEF Fit
  <2>3. Best(sys, f, codeName) = Best(sys, g, codeName)
    <3>1. Best(sys, f, codeName) \subseteq Best(sys, g, codeName)
      BY <1>4, <2>1, NamedIsBest
    <3>2. Best(sys, g, codeName) \subseteq Best(sys, f, codeName)
      BY <1>4, <2>1, <2>2, NamedIsBest
    <3> QED BY <3>1, <3>2
  <2>4. FirstOfBest(sys, g, codeName) = first
    BY <2>3 DEF FirstOfBest
  <2>5. TemplateName(g, first) = TemplateName(f, first)
    BY DEF TemplateName
  <2> QED BY <1>1, <2>2, <2>4, <2>5, TemplateIs
<1>5. CASE f.role = "Vars" /\ ~\E fw \in Fit(sys, f, codeName) : fw.vars = f.name
  <2>1. first.vars # f.name /\ Rank(f, first, codeName) # 0
    <3>1. Rank(f, first, codeName) > 0
      BY <1>2 DEF Fit
    <3>2. Rank(f, first, codeName) # 0
      BY <3>1, Positive, Zenon
    <3> QED BY <1>2, <1>5, <3>2, Zenon
  <2>2. first.format = f.format
    <3>1. first.format # f.format => Rank(f, first, codeName) = 0
      BY <1>5, <2>1, RankOfVars, Zenon
    <3> QED BY <2>1, <3>1
  <2>3. TemplateOf(sys, f, codeName) = first.vars
    BY <1>1, <1>5 DEF TemplateName
  <2>4. g.format = f.format
    <3>1. first.vars \in DOMAIN sys /\ first.vars \in DOMAIN Templates
      BY <1>1, <2>3 DEF SystemFits
    <3>2. sys[first.vars].fmt = Templates[first.vars].fmt
      BY <3>1 DEF SystemFits
    <3>3. Templates[first.vars].fmt = first.format
      BY <1>2, <3>1, TemplatesAssumption
    <3> HIDE DEF first
    <3> QED BY <2>2, <2>3, <3>2, <3>3
  <2>5. ASSUME NEW fw \in Firmwares
        PROVE  Rank(f, fw, codeName) = Rank(g, fw, codeName)
    <3>1. g.role = "Vars" /\ g.name = f.name
      BY <1>5
    <3>2. CASE fw.vars = f.name
      <4>1. CASE OfCode(fw, codeName)
        <5>1. Rank(f, fw, codeName) = 3
          BY <1>5, <3>2, <4>1, RankOfVars, Zenon
        <5>2. Rank(g, fw, codeName) = 3
          BY <3>1, <3>2, <4>1, RankOfVars, Zenon
        <5> QED BY <5>1, <5>2
      <4>2. CASE ~OfCode(fw, codeName)
        <5>1. Rank(f, fw, codeName) = 2
          BY <1>5, <3>2, <4>2, RankOfVars, Zenon
        <5>2. Rank(g, fw, codeName) = 2
          BY <3>1, <3>2, <4>2, RankOfVars, Zenon
        <5> QED BY <5>1, <5>2
      <4> QED BY <4>1, <4>2
    <3>3. CASE fw.vars # f.name /\ OfCode(fw, codeName) /\ fw.format = f.format
      BY <1>5, <2>4, <3>1, <3>3, RankOfVars, Zenon
    <3>4. CASE fw.vars # f.name /\ ~(OfCode(fw, codeName) /\ fw.format = f.format)
      BY <1>5, <2>4, <3>1, <3>4, RankOfVars, Zenon
    <3> QED BY <3>2, <3>3, <3>4, Zenon
  <2> QED BY <2>5, SameRanks
<1> QED BY <1>3, <1>4, <1>5 DEF HasRole

-----------------------------------------------------------------------------
(* What is wrong with a file                                               *)

(* An image that is read well is the content; whether it is depends on its *)
(* format and its tables.                                                  *)
LEMMA InspectIs ==
    ASSUME NEW c, NEW format, Inspect(c, format).problem = ""
    PROVE  /\ Inspect(c, format).size = c.size
           /\ Inspect(c, format).head = c.head
  BY DEF Inspect, ReadQcow2, Image, Bad

LEMMA InspectStays ==
    ASSUME NEW c, NEW e, NEW format, c.fmt = e.fmt, c.tables = e.tables
    PROVE  Inspect(c, format).problem = Inspect(e, format).problem
  BY DEF Inspect, ReadQcow2, Image, Bad

HeadFits(role, head, model) ==
    \/ Volume(model) = ""
    \/ role = "Vars" /\ (Volume(head) = Volume(model) \/ head = "blank")
    \/ role = "Code" /\ Volume(head) # ""

Fits(c, format, role, model) ==
    /\ c.size # "none"
    /\ Inspect(c, format).problem = ""
    /\ Inspect(model, "").problem = "" => c.size = model.size /\ HeadFits(role, c.head, model.head)

LEMMA ProblemIs ==
    ASSUME NEW sys, NEW d, NEW f, f.place \in DOMAIN d, f.template # ""
    PROVE  Problem(sys, d, f) = "" <=> Fits(d[f.place], f.format, f.role, sys[f.template])
<1> DEFINE c == d[f.place]
           model == sys[f.template]
<1>1. CASE c.size = "none"
  BY <1>1 DEF Problem, Fits
<1>2. CASE c.size # "none" /\ Inspect(c, f.format).problem # ""
  BY <1>2 DEF Problem, Fits
<1>3. CASE /\ c.size # "none" /\ Inspect(c, f.format).problem = ""
           /\ Inspect(model, "").problem # ""
  BY <1>3 DEF Problem, Fits
<1>4. CASE /\ c.size # "none" /\ Inspect(c, f.format).problem = ""
           /\ Inspect(model, "").problem = ""
  <2>1. /\ Inspect(c, f.format).size = c.size /\ Inspect(c, f.format).head = c.head
        /\ Inspect(model, "").size = model.size /\ Inspect(model, "").head = model.head
    BY <1>4, InspectIs
  <2>2. Problem(sys, d, f) = (IF c.size # model.size THEN "of the wrong size"
                              ELSE IF HeadFits(f.role, c.head, model.head) THEN "" ELSE "damaged")
    BY <1>4, <2>1 DEF Problem, HeadFits
  <2> QED BY <1>4, <2>2 DEF Fits
<1> QED BY <1>1, <1>2, <1>3, <1>4

(* A copy of the template, or the template written into a file, is whole.  *)
LEMMA RenewedFits ==
    ASSUME NEW c, NEW model, c.head = model.head, c.size = model.size, NEW format, NEW role,
           HasRole([role |-> role]), c.size # "none", Inspect(c, format).problem = ""
    PROVE  Fits(c, format, role, model)
  BY DEF Fits, HeadFits, HasRole

(* What the guest writes: variables where a store was erased.              *)
Written1(c, e) ==
    /\ e.fmt = c.fmt /\ e.tables = c.tables /\ e.size = c.size
    /\ e.head # c.head => c.head = "blank" /\ e.head = "vars"

LEMMA WrittenFits ==
    ASSUME NEW c, NEW e, Written1(c, e), NEW format, NEW role, NEW model,
           role = "Vars" => model.head \notin {"code", "newer code"},
           Fits(c, format, role, model)
    PROVE  Fits(e, format, role, model)
<1>1. Inspect(e, format).problem = "" /\ e.size # "none"
  BY InspectStays DEF Fits, Written1
<1>2. HeadFits(role, c.head, model.head) => HeadFits(role, e.head, model.head)
  <2>1. CASE e.head = c.head
    BY <2>1
  <2>2. CASE c.head = "blank" /\ e.head = "vars"
    BY <2>2 DEF HeadFits, Volume
  <2> QED BY <2>1, <2>2 DEF Written1
<1> QED BY <1>1, <1>2 DEF Fits, Written1

(* A newer release of the firmware package.                                *)
Newer(model, newer) ==
    /\ newer.fmt = model.fmt /\ newer.tables = model.tables /\ newer.size = model.size
    /\ newer.head # model.head => model.head = "code" /\ newer.head = "newer code"

LEMMA NewerFits ==
    ASSUME NEW c, NEW format, NEW role, NEW model, NEW newer, Newer(model, newer),
           role = "Vars" => model.head \notin {"code", "newer code"},
           Fits(c, format, role, model)
    PROVE  Fits(c, format, role, newer)
<1>1. Inspect(newer, "").problem = Inspect(model, "").problem
  BY InspectStays DEF Newer
<1>2. HeadFits(role, c.head, model.head) => HeadFits(role, c.head, newer.head)
  <2>1. CASE newer.head = model.head
    BY <2>1
  <2>2. CASE model.head = "code" /\ newer.head = "newer code"
    BY <2>2 DEF HeadFits, Volume
  <2> QED BY <2>1, <2>2 DEF Newer
<1> QED BY <1>1, <1>2 DEF Fits, Newer

(* Variables come from a template of variables.                            *)
LEMMA VarsTemplate ==
    ASSUME NEW sys, SystemFits(sys), NEW file, file.role = "Vars", NEW codeName,
           TemplateOf(sys, file, codeName) # ""
    PROVE  sys[TemplateOf(sys, file, codeName)].head \notin {"code", "newer code"}
<1> DEFINE first == FirstOfBest(sys, file, codeName)
<1>1. /\ first \in Best(sys, file, codeName)
      /\ TemplateOf(sys, file, codeName) = TemplateName(file, first)
      /\ TemplateOf(sys, file, codeName) \in DOMAIN sys
  <2>1. HasRole(file)
    BY DEF HasRole
  <2> QED BY <2>1, TemplateThere
<1>2. first \in Firmwares /\ TemplateOf(sys, file, codeName) = first.vars
  BY <1>1 DEF Best, Fit, TemplateName
<1>3. /\ first.vars \in DOMAIN sys /\ first.vars \in DOMAIN Templates
      /\ Templates[first.vars].head \notin {"code", "newer code"}
  BY <1>1, <1>2, TemplatesAssumption DEF SystemFits
<1> QED BY <1>2, <1>3 DEF SystemFits

-----------------------------------------------------------------------------
(* FirmwareFiles::reset                                                    *)

LEMMA BackupIs ==
    ASSUME NEW d, NEW p \in Paths, FreeNumbers(d, p) # {}
    PROVE  /\ \E n \in 1..MaxBackups : BackupOf(d, p) = BackupName(p, n)
           /\ BackupOf(d, p) \notin DOMAIN d
           /\ BackupOf(d, p) \notin Paths
<1> DEFINE S == FreeNumbers(d, p)
<1>1. S \in SUBSET Nat /\ S \in SUBSET (1..MaxBackups)
  BY VmFilesAssumption DEF FreeNumbers
<1>2. \E n \in S : \A m \in S : n <= m
  BY <1>1, LeastNumber
<1>3. Min(S) \in S
  BY <1>2 DEF Min
<1>4. BackupName(p, Min(S)) \notin DOMAIN d
  BY <1>3 DEF FreeNumbers
<1> QED BY <1>1, <1>3, <1>4, BackupAssumption DEF BackupOf

(* A file that is made again has the head and the size of its template,    *)
(* and its format or that of before.                                       *)
Renewed(c, old, model) ==
    c.head = model.head /\ c.size = model.size /\ (c.fmt = old.fmt \/ c.fmt = model.fmt)

(* The template written into a file.                                       *)
Converted(c, old, model, format) ==
    /\ format = "qcow2" /\ old.fmt = "qcow2" /\ old.tables = "whole"
    /\ old.size = model.size /\ old.size # "none"
    /\ c.fmt = old.fmt /\ c.tables = old.tables /\ c.size = old.size /\ c.head = model.head

(* What a file that is still there can end as.                             *)
HalfWritten(c) == c.data = "half"
Ends(c, old, model, format) ==
    c = old \/ c = model \/ HalfWritten(c) \/ Converted(c, old, model, format)

(* One reset changes its file only, and saves it before.                   *)
Resets(d, e, p, saved, ok, model, format) ==
    /\ DOMAIN d \ {p} \subseteq DOMAIN e
    /\ DOMAIN e \subseteq DOMAIN d \cup {saved}
    /\ \A q \in DOMAIN d \ {p} : e[q] = d[q]
    /\ \A q \in DOMAIN e : IsContent(e[q])
    /\ saved \in DOMAIN e => e[saved] = d[p]
    /\ saved \in DOMAIN e \/ (p \in DOMAIN e /\ e[p] = d[p])
    /\ ok => p \in DOMAIN e /\ Renewed(e[p], d[p], model)
    /\ p \in DOMAIN e => Ends(e[p], d[p], model, format)

LEMMA SavedFirst ==
    ASSUME NEW d, NEW e, NEW p \in DOMAIN d, NEW saved, NEW ok \in BOOLEAN, NEW model, NEW format,
           saved \notin DOMAIN d, \A q \in DOMAIN d : IsContent(d[q]),
           DOMAIN e \ {p} = (DOMAIN d \ {p}) \cup {saved}, e[saved] = d[p],
           \A q \in DOMAIN d \ {p} : e[q] = d[q],
           p \in DOMAIN e => IsContent(e[p]) /\ Ends(e[p], d[p], model, format),
           ok => p \in DOMAIN e /\ Renewed(e[p], d[p], model)
    PROVE  Resets(d, e, p, saved, ok, model, format)
<1>1. ASSUME NEW q \in DOMAIN e
      PROVE  IsContent(e[q])
  <2>1. CASE q = p
    BY <2>1
  <2>2. CASE q = saved
    BY <2>2
  <2>3. CASE q \in DOMAIN d \ {p}
    BY <2>3
  <2> QED BY <2>1, <2>2, <2>3
<1>2. saved \in DOMAIN e /\ DOMAIN d \ {p} \subseteq DOMAIN e
      /\ DOMAIN e \subseteq DOMAIN d \cup {saved}
  OBVIOUS
<1> QED BY <1>1, <1>2 DEF Resets

LEMMA DataContent ==
    ASSUME NEW c, IsContent(c), NEW data
    PROVE  IsContent([c EXCEPT !.data = data])
  BY DEF IsContent

LEMMA SnapshotsIn ==
    ASSUME NEW c, SnapshotCount(c) > 0
    PROVE  c.fmt = "qcow2" /\ c.size # "none"
<1>1. CASE c.fmt = "qcow2" /\ c.size # "none" /\ c.snaps
  BY <1>1
<1>2. CASE ~(c.fmt = "qcow2" /\ c.size # "none" /\ c.snaps)
  <2>1. SnapshotCount(c) = 0
    BY <1>2 DEF SnapshotCount
  <2> QED BY <2>1
<1> QED BY <1>1, <1>2

LEMMA ResetIs ==
    ASSUME NEW sys, NEW d, NEW f, NEW fails,
           \A q \in DOMAIN d : IsContent(d[q]), IsContent(sys[f.template]),
           f.place \in Paths, f.place \in DOMAIN d, f.template # "",
           FreeNumbers(d, f.place) # {}
    PROVE  Resets(d, ResetFile(sys, d, f, fails).files, f.place, BackupOf(d, f.place),
                  ResetFile(sys, d, f, fails).ok, sys[f.template], f.format)
<1> DEFINE p == f.place
           saved == BackupOf(d, p)
           old == d[p]
           model == sys[f.template]
           backed == Put(d, saved, old)
           rest == Without(backed, p)
           copied == CopyTemplate(sys, rest, f, fails)
           converted == Put(backed, p, [old EXCEPT !.head = model.head, !.data = model.data])
           half == Put(backed, p, [old EXCEPT !.data = "half"])
           undone == IF "restore" \in fails THEN rest ELSE d
           writes == f.format = "qcow2" /\ SnapshotCount(old) > 0 /\ "back up" \notin fails
           r == ResetFile(sys, d, f, fails)
<1>1. saved \notin DOMAIN d /\ saved # p
  BY BackupIs
<1>2. IsContent(old) /\ IsContent(model)
  OBVIOUS
<1> HIDE DEF saved, old, model
<1>3. /\ DOMAIN backed = DOMAIN d \cup {saved} /\ backed[saved] = old
      /\ \A q \in DOMAIN d : backed[q] = d[q]
  BY <1>1 DEF Put
<1>4. /\ DOMAIN rest = (DOMAIN d \ {p}) \cup {saved} /\ rest[saved] = old
      /\ \A q \in DOMAIN d \ {p} : rest[q] = d[q]
  BY <1>1, <1>3 DEF Without
<1>5. Resets(d, d, p, saved, FALSE, model, f.format)
  BY <1>1 DEF Resets, Ends
<1>6. Resets(d, rest, p, saved, FALSE, model, f.format)
  BY <1>1, <1>4, SavedFirst DEF old
<1>7. Resets(d, undone, p, saved, FALSE, model, f.format)
  BY <1>5, <1>6
<1>8. ASSUME copied.ok
      PROVE  Resets(d, copied.files, p, saved, TRUE, model, f.format)
  <2>1. copied.files = Put(rest, p, model)
    BY <1>8 DEF CopyTemplate, Result, model
  <2>2. /\ DOMAIN copied.files = DOMAIN d \cup {saved}
        /\ copied.files[p] = model /\ copied.files[saved] = old
        /\ \A q \in DOMAIN d \ {p} : copied.files[q] = d[q]
    BY <1>1, <1>4, <2>1 DEF Put
  <2>3. Ends(copied.files[p], old, model, f.format) /\ Renewed(copied.files[p], old, model)
    BY <2>2 DEF Ends, Renewed
  <2> HIDE DEF copied
  <2> QED BY <1>1, <1>2, <2>2, <2>3, SavedFirst DEF old
<1>9. ASSUME Converts(old, model, fails), writes
      PROVE  Resets(d, converted, p, saved, TRUE, model, f.format)
  <2>1. /\ DOMAIN converted = DOMAIN d \cup {saved} /\ converted[saved] = old
        /\ converted[p] = [old EXCEPT !.head = model.head, !.data = model.data]
        /\ \A q \in DOMAIN d \ {p} : converted[q] = d[q]
    BY <1>1, <1>3 DEF Put
  <2>2. /\ IsContent(converted[p]) /\ converted[p].head = model.head
        /\ converted[p].size = model.size /\ converted[p].fmt = old.fmt
        /\ converted[p].tables = old.tables /\ converted[p].size = old.size
    BY <1>2, <1>9, <2>1 DEF Converts, IsContent
  <2>3. Converted(converted[p], old, model, f.format)
    <3>1. old.fmt = "qcow2" /\ old.size # "none"
      BY <1>9, SnapshotsIn
    <3> QED BY <1>9, <2>2, <3>1 DEF Converts, Converted
  <2>4. Ends(converted[p], old, model, f.format) /\ Renewed(converted[p], old, model)
    BY <2>2, <2>3 DEF Ends, Renewed
  <2> HIDE DEF converted, backed
  <2> QED BY <1>1, <1>2, <2>1, <2>2, <2>4, SavedFirst DEF old
<1>10. Resets(d, half, p, saved, FALSE, model, f.format)
  <2>1. /\ DOMAIN half = DOMAIN d \cup {saved} /\ half[saved] = old
        /\ half[p] = [old EXCEPT !.data = "half"]
        /\ \A q \in DOMAIN d \ {p} : half[q] = d[q]
    BY <1>1, <1>3 DEF Put
  <2>2. IsContent(half[p]) /\ Ends(half[p], old, model, f.format)
    <3>1. IsContent([old EXCEPT !.data = "half"])
      BY <1>2, DataContent
    <3>2. HalfWritten([old EXCEPT !.data = "half"])
      BY <1>2 DEF IsContent, HalfWritten
    <3> QED BY <2>1, <3>1, <3>2 DEF Ends
  <2>3. half[saved] = old /\ \A q \in DOMAIN d \ {p} : half[q] = d[q]
    BY <2>1
  <2>4. DOMAIN half \ {p} = (DOMAIN d \ {p}) \cup {saved}
    BY <1>1, <2>1
  <2> HIDE DEF half
  <2> QED BY <1>1, <1>2, <2>2, <2>3, <2>4, SavedFirst DEF old
<1>11. \/ r.ok = TRUE /\ r.files = converted /\ Converts(old, model, fails) /\ writes
       \/ r.ok = FALSE /\ r.files = half
       \/ copied.ok /\ r = copied
       \/ r.ok = FALSE /\ r.files = undone
       \/ r.ok = FALSE /\ r.files = d
  <2>1. CASE writes
    BY <2>1 DEF ResetFile, Result, saved, old, model
  <2>2. CASE ~writes
    BY <2>2 DEF ResetFile, Result, saved, old, model
  <2> QED BY <2>1, <2>2
<1>12. copied.ok \in BOOLEAN
  BY DEF CopyTemplate, Result
<1>13. copied.ok => copied.ok = TRUE
  BY <1>12
<1> HIDE DEF r, copied, converted, half, undone, writes
<1> QED BY <1>5, <1>7, <1>8, <1>9, <1>10, <1>11, <1>13 DEF saved, old, model, r

-----------------------------------------------------------------------------
(* FirmwareRepair::replace: one reset after the other                      *)

Smallest(x, T) == x \in T /\ \A y \in T : ~(y \subseteq x /\ y # x)

LEMMA SmallestSubset ==
    ASSUME NEW S, IsFiniteSet(S), NEW T, T \subseteq SUBSET S, T # {}
    PROVE  \E x : Smallest(x, T)
<1>1. IsWellFoundedOn(StrictSubsetOrdering(S), SUBSET S)
  BY FS_StrictSubsetOrderingWellFounded, FS_FiniteSubsetsOfFinite
<1>2. PICK x \in T : \A y \in T : ~ (<<y, x>> \in StrictSubsetOrdering(S))
  BY <1>1, WFMin, Zenon
<1> QED BY <1>2 DEF StrictSubsetOrdering, Smallest

Pick(s) == CHOOSE x \in s : TRUE

OneReset(sys, fails, done, f) ==
    [ok    |-> done.ok /\ ResetFile(sys, done.files, f, fails).ok,
     files |-> ResetFile(sys, done.files, f, fails).files]

(* g: what is done after each part of the list.                            *)
Unfolds(g, sys, d, fails, list) ==
    g = [s \in SUBSET list |->
            IF s = {} THEN [ok |-> TRUE, files |-> d]
            ELSE OneReset(sys, fails, g[s \ {Pick(s)}], Pick(s))]

LEMMA ReplaceIs ==
    ASSUME NEW sys, NEW d, NEW list, NEW fails
    PROVE  Replace(sys, d, list, fails) = (CHOOSE g : Unfolds(g, sys, d, fails, list))[list]
  BY DEF Replace, FoldSet, MapThenFoldSet, Unfolds, OneReset, Pick, Result

(* Two of these agree on what both are about.                              *)
LEMMA UnfoldsAgree ==
    ASSUME NEW sys, NEW d, NEW fails, NEW S, IsFiniteSet(S), NEW T, T \subseteq S,
           NEW g, Unfolds(g, sys, d, fails, S), NEW h, Unfolds(h, sys, d, fails, T)
    PROVE  \A s \in SUBSET T : g[s] = h[s]
<1> DEFINE Bad1 == {s \in SUBSET T : g[s] # h[s]}
<1> SUFFICES ASSUME Bad1 # {} PROVE FALSE
  OBVIOUS
<1>1. Bad1 \subseteq SUBSET S
  OBVIOUS
<1> HIDE DEF Bad1
<1>2. PICK s : Smallest(s, Bad1)
  BY <1>1, SmallestSubset, Zenon
<1>3. /\ g[s] = IF s = {} THEN [ok |-> TRUE, files |-> d]
                ELSE OneReset(sys, fails, g[s \ {Pick(s)}], Pick(s))
      /\ h[s] = IF s = {} THEN [ok |-> TRUE, files |-> d]
                ELSE OneReset(sys, fails, h[s \ {Pick(s)}], Pick(s))
  <2>1. s \in SUBSET S /\ s \in SUBSET T
    BY <1>2 DEF Bad1, Smallest
  <2> QED BY <2>1, Zenon DEF Unfolds
<1>4. s # {}
  BY <1>2, <1>3 DEF Bad1, Smallest
<1>5. Pick(s) \in s
  BY <1>4 DEF Pick
<1>6. g[s \ {Pick(s)}] = h[s \ {Pick(s)}]
  BY <1>2, <1>5 DEF Bad1, Smallest
<1> QED BY <1>2, <1>3, <1>4, <1>6 DEF Bad1, Smallest

LEMMA FoldIsThere ==
    ASSUME NEW sys, NEW d, NEW fails, NEW list, IsFiniteSet(list)
    PROVE  \E g : Unfolds(g, sys, d, fails, list)
<1> DEFINE U(g, S) == Unfolds(g, sys, d, fails, S)
           Bad1 == {S \in SUBSET list : ~\E g : U(g, S)}
<1> SUFFICES ASSUME Bad1 # {} PROVE FALSE
  OBVIOUS
<1>0. Bad1 \subseteq SUBSET list
  OBVIOUS
<1> HIDE DEF Bad1
<1>1. PICK S : Smallest(S, Bad1)
  BY <1>0, SmallestSubset, Zenon
<1>2. \A T \in SUBSET S : T # S => \E g : U(g, T)
  BY <1>1 DEF Bad1, Smallest
<1> DEFINE G(T) == CHOOSE g : U(g, T)
<1>3. \A T \in SUBSET S : T # S => U(G(T), T)
  BY <1>2
<1> DEFINE h == [s \in SUBSET S |->
                    IF s = {} THEN [ok |-> TRUE, files |-> d]
                    ELSE OneReset(sys, fails, G(s \ {Pick(s)})[s \ {Pick(s)}], Pick(s))]
<1> HIDE DEF G, U
<1>4. ASSUME NEW t \in SUBSET S, t # S
      PROVE  h[t] = G(t)[t]
  <2>1. U(G(t), t) /\ IsFiniteSet(t)
    <3>1. IsFiniteSet(S)
      BY <1>1, FS_Subset DEF Bad1, Smallest
    <3> QED BY <1>3, <1>4, <3>1, FS_Subset
  <2>2. G(t)[t] = IF t = {} THEN [ok |-> TRUE, files |-> d]
                  ELSE OneReset(sys, fails, G(t)[t \ {Pick(t)}], Pick(t))
    <3>1. t \in SUBSET t
      OBVIOUS
    <3> QED BY <2>1, <3>1, Zenon DEF U, Unfolds
  <2>3. CASE t = {}
    BY <2>2, <2>3
  <2>4. CASE t # {}
    <3> DEFINE r == t \ {Pick(t)}
    <3>1. r \in SUBSET t /\ r # t /\ r \in SUBSET S /\ r # S
      BY <1>4, <2>4 DEF Pick
    <3>2. U(G(r), r)
      BY <1>3, <3>1
    <3> HIDE DEF r
    <3>3. \A s \in SUBSET r : G(t)[s] = G(r)[s]
      <4>1. r \subseteq t /\ IsFiniteSet(t)
        BY <2>1, <3>1
      <4>2. Unfolds(G(t), sys, d, fails, t) /\ Unfolds(G(r), sys, d, fails, r)
        BY <2>1, <3>2 DEF U
      <4> QED BY <4>1, <4>2, UnfoldsAgree
    <3>4. G(t)[r] = G(r)[r]
      BY <3>3
    <3> QED BY <2>2, <2>4, <3>1, <3>4 DEF r
  <2> QED BY <2>3, <2>4
<1>5. ASSUME NEW s \in SUBSET S, s # {}
      PROVE  G(s \ {Pick(s)})[s \ {Pick(s)}] = h[s \ {Pick(s)}]
  <2>1. s \ {Pick(s)} \in SUBSET S /\ s \ {Pick(s)} # S
    BY <1>5 DEF Pick
  <2> QED BY <1>4, <2>1
<1>6. h = [s \in SUBSET S |->
              IF s = {} THEN [ok |-> TRUE, files |-> d]
              ELSE OneReset(sys, fails, h[s \ {Pick(s)}], Pick(s))]
  BY <1>5
<1>7. U(h, S)
  BY <1>6 DEF U, Unfolds
<1> QED BY <1>1, <1>7 DEF U, Bad1, Smallest

(* What can be replaced: files that are there, each once, with room for a  *)
(* backup.                                                                 *)
Replaceable(sys, d, f) ==
    /\ f.place \in Paths /\ f.place \in DOMAIN d /\ f.template # ""
    /\ IsContent(sys[f.template]) /\ FreeNumbers(d, f.place) # {}

AllReplaceable(sys, d, list) ==
    /\ \A q \in DOMAIN d : IsContent(d[q])
    /\ \A f \in list : Replaceable(sys, d, f)
    /\ \A f, g \in list : f.place = g.place => f = g

(* The others stay, what is new is a backup, no file is lost, and if all   *)
(* went well they are all new.                                             *)
Replaced(sys, d, list, done) ==
    LET e == done.files
    IN  /\ \A q \in DOMAIN d : (\A f \in list : f.place # q) => q \in DOMAIN e /\ e[q] = d[q]
        /\ \A q \in DOMAIN e \ DOMAIN d :
               \E f \in list, n \in 1..MaxBackups : q = BackupName(f.place, n)
        /\ \A q \in DOMAIN e : IsContent(e[q])
        /\ \A f \in list : Keeps(d, e, f.place)
        /\ done.ok => \A f \in list : /\ f.place \in DOMAIN e
                                      /\ Renewed(e[f.place], d[f.place], sys[f.template])
        /\ \A f \in list : f.place \in DOMAIN e =>
               Ends(e[f.place], d[f.place], sys[f.template], f.format)

LEMMA OneMore ==
    ASSUME NEW sys, NEW d, NEW fails, NEW list, AllReplaceable(sys, d, list),
           NEW s \in SUBSET list, NEW done, Replaced(sys, d, s, done), NEW f \in list, f \notin s
    PROVE  Replaced(sys, d, s \cup {f}, OneReset(sys, fails, done, f))
<1> DEFINE d1 == done.files
           p == f.place
           r == ResetFile(sys, d1, f, fails)
           e == r.files
           saved == BackupOf(d1, p)
           model == sys[f.template]
<1>1. /\ p \in Paths /\ p \in DOMAIN d /\ f.template # "" /\ IsContent(model)
      /\ FreeNumbers(d, p) # {}
  BY DEF AllReplaceable, Replaceable
<1>2. \A g \in s : g.place \in Paths /\ g.place # p /\ g.place \in DOMAIN d
  BY DEF AllReplaceable, Replaceable
<1>3. p \in DOMAIN d1 /\ d1[p] = d[p]
  BY <1>1, <1>2 DEF Replaced
<1>4. FreeNumbers(d1, p) = FreeNumbers(d, p)
  <2>1. ASSUME NEW n \in 1..MaxBackups
        PROVE  BackupName(p, n) \in DOMAIN d1 <=> BackupName(p, n) \in DOMAIN d
    <3>1. BackupName(p, n) \notin Paths
      BY <1>1, BackupAssumption
    <3>2. ASSUME BackupName(p, n) \in DOMAIN d
          PROVE  BackupName(p, n) \in DOMAIN d1
      BY <1>2, <3>1, <3>2 DEF Replaced
    <3>3. ASSUME BackupName(p, n) \in DOMAIN d1, BackupName(p, n) \notin DOMAIN d
          PROVE  FALSE
      <4>1. PICK g \in s, m \in 1..MaxBackups : BackupName(p, n) = BackupName(g.place, m)
        BY <3>3 DEF Replaced
      <4> QED BY <1>1, <1>2, <4>1, BackupAssumption
    <3> QED BY <3>2, <3>3
  <2> QED BY <2>1 DEF FreeNumbers
<1>5. \A q \in DOMAIN d1 : IsContent(d1[q])
  BY DEF Replaced
<1>6. FreeNumbers(d1, p) # {}
  BY <1>1, <1>4
<1>7. Resets(d1, e, p, saved, r.ok, model, f.format)
  BY <1>1, <1>3, <1>5, <1>6, ResetIs
<1>8. /\ \E n \in 1..MaxBackups : saved = BackupName(p, n)
      /\ saved \notin DOMAIN d1 /\ saved \notin Paths
  BY <1>1, <1>6, BackupIs
<1>9. saved \notin DOMAIN d
  BY <1>2, <1>1, <1>8 DEF Replaced
<1> HIDE DEF saved, r, model
<1>10. ASSUME NEW q \in DOMAIN d, \A g \in s \cup {f} : g.place # q
       PROVE  q \in DOMAIN e /\ e[q] = d[q]
  <2>1. q \in DOMAIN d1 /\ d1[q] = d[q] /\ q # p
    BY <1>10 DEF Replaced
  <2> QED BY <1>7, <2>1 DEF Resets
<1>11. ASSUME NEW q \in DOMAIN e \ DOMAIN d
       PROVE  \E g \in s \cup {f}, n \in 1..MaxBackups : q = BackupName(g.place, n)
  <2>1. q \in DOMAIN d1 \/ q = saved
    BY <1>7 DEF Resets
  <2>2. CASE q \in DOMAIN d1
    BY <2>2 DEF Replaced
  <2>3. CASE q = saved
    BY <1>8, <2>3
  <2> QED BY <2>1, <2>2, <2>3
<1>12. \A q \in DOMAIN e : IsContent(e[q])
  BY <1>7 DEF Resets
<1>13. ASSUME NEW g \in s
       PROVE  Keeps(d, e, g.place)
  <2>1. Keeps(d, d1, g.place) /\ g.place # p /\ g.place \in DOMAIN d
    BY <1>2 DEF Replaced
  <2>2. CASE g.place \in DOMAIN d1 /\ d1[g.place] = d[g.place]
    BY <1>7, <2>1, <2>2 DEF Resets, Keeps
  <2>3. CASE \E q \in DOMAIN d1 \ DOMAIN d : d1[q] = d[g.place]
    <3>1. PICK q \in DOMAIN d1 \ DOMAIN d : d1[q] = d[g.place]
      BY <2>3
    <3>2. q \in DOMAIN e /\ e[q] = d1[q]
      BY <1>1, <1>7, <3>1 DEF Resets
    <3> QED BY <3>1, <3>2 DEF Keeps
  <2> QED BY <2>1, <2>2, <2>3 DEF Keeps
<1>14. Keeps(d, e, p)
  BY <1>3, <1>7, <1>9 DEF Resets, Keeps
<1>15. ASSUME done.ok, r.ok, NEW g \in s \cup {f}
       PROVE  g.place \in DOMAIN e /\ Renewed(e[g.place], d[g.place], sys[g.template])
  <2>1. CASE g = f
    BY <1>3, <1>7, <1>15, <2>1 DEF Resets, model
  <2>2. CASE g \in s
    <3>1. /\ g.place \in DOMAIN d1 /\ g.place # p
          /\ Renewed(d1[g.place], d[g.place], sys[g.template])
      BY <1>2, <1>15, <2>2 DEF Replaced
    <3> QED BY <1>7, <3>1 DEF Resets
  <2> QED BY <2>1, <2>2
<1>17. ASSUME NEW g \in s \cup {f}, g.place \in DOMAIN e
       PROVE  Ends(e[g.place], d[g.place], sys[g.template], g.format)
  <2>1. CASE g = f
    BY <1>3, <1>7, <1>17, <2>1 DEF Resets, model
  <2>2. CASE g \in s
    <3>1. g.place # p /\ g.place \in DOMAIN d /\ g.place \in Paths
      BY <1>2, <2>2
    <3>2. g.place \in DOMAIN d1 /\ e[g.place] = d1[g.place]
      BY <1>7, <1>8, <1>17, <3>1 DEF Resets
    <3> QED BY <2>2, <3>2 DEF Replaced
  <2> QED BY <2>1, <2>2
<1>16. /\ OneReset(sys, fails, done, f).files = e
       /\ OneReset(sys, fails, done, f).ok <=> done.ok /\ r.ok
  BY DEF OneReset, r
<1> HIDE DEF e
<1> QED BY <1>10, <1>11, <1>12, <1>13, <1>14, <1>15, <1>16, <1>17 DEF Replaced

(* Induction over the parts of the list, by the smallest that fails.       *)
LEMMA ReplaceDoes ==
    ASSUME NEW sys, NEW d, NEW fails, NEW list, IsFiniteSet(list), AllReplaceable(sys, d, list)
    PROVE  Replaced(sys, d, list, Replace(sys, d, list, fails))
<1> DEFINE g == CHOOSE g : Unfolds(g, sys, d, fails, list)
           Bad1 == {s \in SUBSET list : ~Replaced(sys, d, s, g[s])}
<1>1. Unfolds(g, sys, d, fails, list)
  BY FoldIsThere
<1> HIDE DEF g
<1>2. Bad1 = {}
  <2> SUFFICES ASSUME Bad1 # {} PROVE FALSE
    OBVIOUS
  <2>1. Bad1 \subseteq SUBSET list
    OBVIOUS
  <2> HIDE DEF Bad1
  <2>2. PICK s : Smallest(s, Bad1)
    BY <2>1, SmallestSubset, Zenon
  <2>3. s \in SUBSET list /\ ~Replaced(sys, d, s, g[s])
    BY <2>2 DEF Bad1, Smallest
  <2>4. g[s] = IF s = {} THEN [ok |-> TRUE, files |-> d]
               ELSE OneReset(sys, fails, g[s \ {Pick(s)}], Pick(s))
    BY <1>1, <2>3, Zenon DEF Unfolds
  <2>5. CASE s = {}
    BY <2>3, <2>4, <2>5 DEF Replaced, AllReplaceable
  <2>6. CASE s # {}
    <3> DEFINE f == Pick(s)
               t == s \ {f}
    <3>1. f \in s /\ f \notin t /\ t \subseteq s /\ t # s /\ s = t \cup {f}
      BY <2>6 DEF Pick
    <3>2. f \in list /\ t \in SUBSET list
      BY <2>3, <3>1
    <3>3. g[s] = OneReset(sys, fails, g[t], f)
      BY <2>4, <2>6
    <3> HIDE DEF f, t
    <3>4. Replaced(sys, d, t, g[t])
      BY <2>2, <3>1, <3>2 DEF Bad1, Smallest
    <3>5. Replaced(sys, d, t \cup {f}, OneReset(sys, fails, g[t], f))
      BY <3>1, <3>2, <3>4, OneMore
    <3> QED BY <2>3, <3>1, <3>3, <3>5
  <2> QED BY <2>5, <2>6
<1> QED BY <1>2, ReplaceIs DEF g

-----------------------------------------------------------------------------
(* The firmware of a VM                                                    *)

LEMMA ListFacts ==
    ASSUME NEW sys, NEW d, NEW id \in Ids, OwnFlash(id)
    PROVE  LET list == FirmwareList(sys, d, id, args[id])
           IN  /\ IsFiniteSet(list)
               /\ \A f \in list : HasRole(f) /\ f.place \in Folders[id] /\ f.place \in Paths
               /\ \A f, g \in list : f.place = g.place => f = g
               /\ \A f \in list : f.template # "" => f.template \in DOMAIN sys
<1> DEFINE a == args[id]
           lines == FlashIn(id, a)
           list == FirmwareList(sys, d, id, a)
<1>1. list = {Entry(sys, d, id, a, i) : i \in lines}
  BY ListIs
<1>2. IsFiniteSet(lines)
  <2>1. lines \subseteq FlashLines(a)
    BY DEF FlashIn
  <2> QED BY <2>1, FS_Subset DEF OwnFlash
<1>3. IsFiniteSet(list)
  <2> DEFINE F == [i \in lines |-> Entry(sys, d, id, a, i)]
  <2>1. F \in Surjection(lines, list)
    BY <1>1 DEF Surjection
  <2> QED BY <1>2, <2>1, FS_Surjection
<1>4. ASSUME NEW i \in lines
      PROVE  LET f == Entry(sys, d, id, a, i)
             IN  /\ HasRole(f) /\ f.place = FlashPlace(id, a, i)
                 /\ f.place \in Folders[id] /\ f.place \in Paths
                 /\ f.template # "" => f.template \in DOMAIN sys
  <2> DEFINE f == Entry(sys, d, id, a, i)
             g == FlashFile(d, id, a, i)
  <2>1. /\ HasRole(f) /\ f.role = g.role /\ f.place = FlashPlace(id, a, i)
        /\ f.template = TemplateOf(sys, g, CodeName(a))
    BY EntryIs
  <2>2. HasRole(g)
    BY <2>1 DEF HasRole
  <2>3. f.template # "" => f.template \in DOMAIN sys
    BY <2>1, <2>2, TemplateThere
  <2>4. f.place \in Folders[id] /\ f.place \in Paths
    BY <2>1, InPaths DEF OwnFlash
  <2> QED BY <2>1, <2>3, <2>4
<1>5. \A i, j \in lines : FlashPlace(id, a, i) = FlashPlace(id, a, j) => i = j
  BY DEF OwnFlash
<1> HIDE DEF list, lines, a
<1>6. \A f \in list : HasRole(f) /\ f.place \in Folders[id] /\ f.place \in Paths
  BY <1>1, <1>4
<1>7. ASSUME NEW f \in list, NEW g \in list, f.place = g.place
      PROVE  f = g
  <2>1. PICK i \in lines : f = Entry(sys, d, id, a, i)
    BY <1>1
  <2>2. PICK j \in lines : g = Entry(sys, d, id, a, j)
    BY <1>1
  <2>3. FlashPlace(id, a, i) = FlashPlace(id, a, j)
    BY <1>4, <1>7, <2>1, <2>2
  <2> QED BY <1>5, <2>1, <2>2, <2>3
<1>8. \A f \in list : f.template # "" => f.template \in DOMAIN sys
  BY <1>1, <1>4
<1> QED BY <1>3, <1>6, <1>7, <1>8 DEF list, a

(* The template of a line stays when that is what is put in its place.     *)
LEMMA EntryRenewed ==
    ASSUME NEW sys, SystemFits(sys), NEW d, NEW e, NEW id, NEW a, NEW i,
           FlashPlace(id, a, i) \in DOMAIN e,
           HasTemplate(Entry(sys, d, id, a, i)),
           \/ /\ FlashPlace(id, a, i) \in DOMAIN d
              /\ e[FlashPlace(id, a, i)].fmt = d[FlashPlace(id, a, i)].fmt
           \/ e[FlashPlace(id, a, i)].fmt = sys[Entry(sys, d, id, a, i).template].fmt
    PROVE  Entry(sys, e, id, a, i).template = Entry(sys, d, id, a, i).template
<1> DEFINE p == FlashPlace(id, a, i)
           f == FlashFile(d, id, a, i)
           g == FlashFile(e, id, a, i)
           t == TemplateOf(sys, f, CodeName(a))
<1>1. /\ Entry(sys, d, id, a, i).template = t
      /\ Entry(sys, e, id, a, i).template = TemplateOf(sys, g, CodeName(a))
  BY DEF Entry, WithTemplate
<1>2. /\ f.role = g.role /\ HasRole(f) /\ f.name = g.name
      /\ f.format = FormatOf(d, a, i, p) /\ g.format = FormatOf(e, a, i, p)
  BY DEF FlashFile, HasRole
<1>3. g.format = f.format \/ g.format = sys[t].fmt
  <2>1. p \in DOMAIN e
    OBVIOUS
  <2>2. \/ p \in DOMAIN d /\ e[p].fmt = d[p].fmt
        \/ e[p].fmt = sys[t].fmt
    BY <1>1
  <2> HIDE DEF p, t, f, g
  <2>3. CASE p \in DOMAIN d /\ e[p].fmt = d[p].fmt
    <3>1. FormatOf(e, a, i, p) = FormatOf(d, a, i, p)
      BY <2>1, <2>3 DEF FormatOf
    <3> QED BY <1>2, <3>1
  <2>4. CASE e[p].fmt = sys[t].fmt
    <3>1. FormatOf(e, a, i, p) = FormatOf(d, a, i, p) \/ FormatOf(e, a, i, p) = e[p].fmt
      BY <2>1 DEF FormatOf
    <3> QED BY <1>2, <2>4, <3>1
  <2> QED BY <2>2, <2>3, <2>4
<1> HIDE DEF f, g
<1>4. TemplateOf(sys, g, CodeName(a)) = t
  BY <1>1, <1>2, <1>3, TemplateStays DEF HasTemplate
<1> QED BY <1>1, <1>4

-----------------------------------------------------------------------------
(* A VM starts                                                             *)

LEMMA RemadeIs ==
    ASSUME NEW id \in Ids, OwnFlash(id), NEW d, NEW e, e = Remade(id, d)
    PROVE  /\ \A q \in DOMAIN d : q \in DOMAIN e /\ e[q] = d[q]
           /\ \A q \in DOMAIN e \ DOMAIN d :
                 q \in Folders[id] /\ \E t \in DOMAIN system : e[q] = system[t]
           /\ \A i \in FlashIn(id, args[id]) :
                 /\ FlashPlace(id, args[id], i) \notin DOMAIN d
                 /\ FlashPlace(id, args[id], i) \in DOMAIN e
                 => /\ HasTemplate(Entry(system, d, id, args[id], i))
                    /\ e[FlashPlace(id, args[id], i)] =
                           system[Entry(system, d, id, args[id], i).template]
<1> DEFINE list == FirmwareList(system, d, id, args[id])
           missing == {f \in list : f.place \notin DOMAIN d /\ f.template # ""}
           fresh == [place \in {f.place : f \in missing} |->
                        system[(CHOOSE f \in missing : f.place = place).template]]
<1>1. e = And(d, fresh)
  BY DEF Remade
<1>2. /\ DOMAIN e = DOMAIN d \cup DOMAIN fresh
      /\ \A q \in DOMAIN d : e[q] = d[q]
      /\ \A q \in DOMAIN fresh \ DOMAIN d : e[q] = fresh[q]
  BY <1>1 DEF And
<1>3. \A f \in list : f.place \in Folders[id]
  BY ListFacts
<1>4. \A f, g \in list : f.place = g.place => f = g
  BY ListFacts
<1>5. list = {Entry(system, d, id, args[id], i) : i \in FlashIn(id, args[id])}
  BY ListIs
<1>9. \A f \in list : f.template # "" => f.template \in DOMAIN system
  BY ListFacts
<1> HIDE DEF list
<1>6. ASSUME NEW i \in FlashIn(id, args[id]),
             FlashPlace(id, args[id], i) \notin DOMAIN d, FlashPlace(id, args[id], i) \in DOMAIN e
      PROVE  LET f == Entry(system, d, id, args[id], i)
             IN  HasTemplate(f) /\ e[f.place] = system[f.template]
  <2> DEFINE f == Entry(system, d, id, args[id], i)
  <2>1. f \in list /\ f.place = FlashPlace(id, args[id], i)
    BY <1>5, EntryIs
  <2>2. f.place \in DOMAIN fresh /\ e[f.place] = fresh[f.place]
    <3>1. f.place \in DOMAIN e /\ f.place \notin DOMAIN d
      BY <1>6, <2>1
    <3> HIDE DEF f, fresh
    <3> QED BY <1>2, <3>1
  <2>3. PICK g \in missing : g.place = f.place
    BY <2>2
  <2> HIDE DEF f
  <2>4. g = f
    BY <1>4, <2>1, <2>3
  <2>5. \A h \in missing : h.place = f.place => h = f
    BY <1>4, <2>1
  <2>6. (CHOOSE h \in missing : h.place = f.place) = f
    BY <2>3, <2>4, <2>5
  <2> QED BY <2>2, <2>3, <2>4, <2>6 DEF f, HasTemplate
<1>7. \A i \in FlashIn(id, args[id]) :
          Entry(system, d, id, args[id], i).place = FlashPlace(id, args[id], i)
  BY EntryIs
<1>8. ASSUME NEW q \in DOMAIN e \ DOMAIN d
      PROVE  q \in Folders[id] /\ \E t \in DOMAIN system : e[q] = system[t]
  <2>1. q \in DOMAIN fresh /\ e[q] = fresh[q]
    BY <1>2
  <2>2. PICK f \in missing : q = f.place
    BY <2>1
  <2> DEFINE h == CHOOSE h \in missing : h.place = q
  <2>3. h \in missing /\ h.place = q
    BY <2>2
  <2>4. e[q] = system[h.template]
    BY <2>1
  <2> HIDE DEF h
  <2>5. h.template \in DOMAIN system
    BY <1>9, <2>3
  <2> QED BY <1>3, <2>3, <2>4, <2>5
<1> HIDE DEF missing, fresh
<1> QED BY <1>2, <1>6, <1>7, <1>8

(* The firmware of a VM is there and whole.                                *)
RunsAll(id, sys, d) ==
    \A f \in FirmwareList(sys, d, id, args[id]) :
        HasTemplate(f) => f.place \in DOMAIN d /\ Problem(sys, d, f) = ""

(* What is there of it is whole, or has what its template has.             *)
LineSound(id, d, i) ==
    LET f == Entry(system, d, id, args[id], i)
        c == d[f.place]
    IN  HasTemplate(f) /\ f.place \in DOMAIN d =>
           \/ Fits(c, f.format, f.role, system[f.template])
           \/ c.head = system[f.template].head /\ c.size = system[f.template].size

LEMMA TakesIs ==
    ASSUME NEW id, NEW e, QemuTakes(e, id), NEW i \in FlashIn(id, args[id])
    PROVE  LET f == Entry(system, e, id, args[id], i)
           IN  /\ f.place \in DOMAIN e /\ e[f.place].size # "none"
               /\ Inspect(e[f.place], f.format).problem = ""
<1> DEFINE g == FlashFile(e, id, args[id], i)
           f == Entry(system, e, id, args[id], i)
<1>1. g \in FlashFiles(e, id, args[id])
  BY DEF FlashFiles
<1>2. /\ g.place \in DOMAIN e /\ e[g.place].size # "none"
      /\ Inspect(e[g.place], g.format).problem = ""
  BY <1>1 DEF QemuTakes
<1>3. g.place = f.place /\ g.format = f.format
  BY DEF Entry, WithTemplate
<1> HIDE DEF f, g
<1> QED BY <1>2, <1>3 DEF f

(* A VM that QEMU starts has all of its firmware, and all of it whole.     *)
LEMMA StartsWhole ==
    ASSUME NEW id \in Ids, SystemFits(system), OwnFlash(id), NEW d, NEW e, e = Remade(id, d),
           \A i \in FlashIn(id, args[id]) : LineSound(id, d, i),
           QemuTakes(e, id)
    PROVE  RunsAll(id, system, e)
<1> SUFFICES ASSUME NEW g \in FirmwareList(system, e, id, args[id]), HasTemplate(g)
             PROVE  g.place \in DOMAIN e /\ Problem(system, e, g) = ""
  BY DEF RunsAll
<1> DEFINE a == args[id]
<1>1. PICK i \in FlashIn(id, a) : g = Entry(system, e, id, a, i)
  BY ListIs
<1> DEFINE p == FlashPlace(id, a, i)
           f == Entry(system, d, id, a, i)
<1>2. g.place = p /\ f.place = p /\ g.role = f.role /\ HasRole(f)
  BY <1>1 DEF Entry, WithTemplate, FlashFile, HasRole
<1>3. p \in DOMAIN e /\ e[p].size # "none" /\ Inspect(e[p], g.format).problem = ""
  BY <1>1, <1>2, TakesIs
<1>4. Fits(e[p], g.format, g.role, system[g.template])
  <2>1. CASE p \in DOMAIN d
    <3> p \in DOMAIN d /\ \A q \in DOMAIN d : e[q] = d[q]
      BY <2>1, RemadeIs
    <3>1. e[p] = d[p]
      OBVIOUS
    <3>2. g = f
      <4>1. p \in DOMAIN d /\ p \in DOMAIN e /\ d[p].fmt = e[p].fmt
        BY <1>3, <2>1, <3>1
      <4>2. Entry(system, e, id, a, i) = Entry(system, d, id, a, i)
        BY <4>1, EntryStays
      <4> QED BY <1>1, <4>2
    <3>3. LineSound(id, d, i)
      OBVIOUS
    <3>4. CASE Fits(d[p], f.format, f.role, system[f.template])
      BY <3>1, <3>2, <3>4
    <3>5. CASE d[p].head = system[f.template].head /\ d[p].size = system[f.template].size
      BY <1>2, <1>3, <3>1, <3>2, <3>5, RenewedFits DEF HasRole
    <3> QED BY <1>2, <2>1, <3>2, <3>3, <3>4, <3>5 DEF LineSound
  <2>2. CASE p \notin DOMAIN d
    <3>1. HasTemplate(f) /\ e[p] = system[f.template]
      <4>1. FlashPlace(id, args[id], i) \notin DOMAIN d /\ FlashPlace(id, args[id], i) \in DOMAIN e
        BY <1>3, <2>2
      <4> QED BY <4>1, RemadeIs
    <3>2. g.template = f.template
      <4>1. /\ FlashPlace(id, a, i) \in DOMAIN e
            /\ HasTemplate(Entry(system, d, id, a, i))
            /\ e[FlashPlace(id, a, i)].fmt = system[Entry(system, d, id, a, i).template].fmt
        BY <1>3, <3>1
      <4>2. Entry(system, e, id, a, i).template = Entry(system, d, id, a, i).template
        BY <4>1, EntryRenewed
      <4> QED BY <1>1, <4>2
    <3> QED BY <1>2, <1>3, <3>1, <3>2, RenewedFits DEF HasRole
  <2> QED BY <2>1, <2>2
<1> QED BY <1>2, <1>3, <1>4, ProblemIs DEF HasTemplate

(* What is there of the firmware of a VM, where none is damaged.           *)
LEMMA UndamagedSound ==
    ASSUME NEW id \in Ids, Damaged(id) = {}, NEW i \in FlashIn(id, args[id])
    PROVE  LineSound(id, files, i)
<1> DEFINE f == Entry(system, files, id, args[id], i)
<1> SUFFICES ASSUME HasTemplate(f), f.place \in DOMAIN files
             PROVE  Fits(files[f.place], f.format, f.role, system[f.template])
  BY DEF LineSound
<1>1. f \in Firmware(id)
  BY ListIs DEF Firmware
<1>2. Problem(system, files, f) = ""
  BY <1>1 DEF Damaged, HasTemplate
<1> QED BY <1>2, ProblemIs DEF HasTemplate

(* And where the damaged files were replaced.                              *)
LEMMA ReplacedSound ==
    ASSUME NEW id \in Ids, SystemFits(system), OwnFlash(id), NEW done, done.ok,
           Replaced(system, files, Damaged(id), done),
           NEW i \in FlashIn(id, args[id])
    PROVE  LineSound(id, done.files, i)
<1> DEFINE a == args[id]
           d == done.files
           p == FlashPlace(id, a, i)
           f == Entry(system, files, id, a, i)
           g == Entry(system, d, id, a, i)
<1> SUFFICES ASSUME HasTemplate(g), g.place \in DOMAIN d
             PROVE  \/ Fits(d[g.place], g.format, g.role, system[g.template])
                    \/ /\ d[g.place].head = system[g.template].head
                       /\ d[g.place].size = system[g.template].size
  BY DEF LineSound
<1>1. g.place = p /\ f.place = p /\ g.role = f.role
  BY DEF Entry, WithTemplate, FlashFile
<1>2. f \in Firmware(id) /\ p \in Paths
  BY ListIs, InPaths DEF Firmware, OwnFlash
<1>3. CASE f \in Damaged(id)
  <2>1. HasTemplate(f) /\ p \in DOMAIN files
    BY <1>1, <1>3 DEF Damaged, HasTemplate
  <2>2. Renewed(d[p], files[p], system[f.template])
    BY <1>1, <1>3 DEF Replaced
  <2>3. g.template = f.template
    BY <1>1, <2>1, <2>2, EntryRenewed DEF Renewed
  <2> QED BY <1>1, <2>2, <2>3 DEF Renewed
<1>4. CASE f \notin Damaged(id)
  <2>1. \A h \in Damaged(id) : h.place # p
    BY <1>1, <1>2, <1>4, ListFacts DEF Damaged, Firmware
  <2>2. p \in DOMAIN files
    <3>1. ASSUME p \notin DOMAIN files
          PROVE  FALSE
      <4>1. PICK h \in Damaged(id), n \in 1..MaxBackups : p = BackupName(h.place, n)
        BY <1>1, <3>1 DEF Replaced
      <4>2. h.place \in Paths
        BY ListFacts DEF Damaged, Firmware
      <4> QED BY <1>2, <4>1, <4>2, BackupAssumption
    <3> QED BY <3>1
  <2>3. d[p] = files[p]
    BY <2>1, <2>2 DEF Replaced
  <2>4. g = f
    BY <1>1, <2>2, <2>3, EntryStays
  <2>5. Problem(system, files, f) = ""
    BY <1>1, <1>2, <1>4, <2>2, <2>4 DEF Damaged, HasTemplate
  <2> QED BY <1>1, <2>2, <2>3, <2>4, <2>5, ProblemIs DEF HasTemplate
<1> QED BY <1>3, <1>4

-----------------------------------------------------------------------------
(* The steps                                                               *)

(* What the guest writes leaves its firmware whole.                        *)
LEMMA UseKeepsWhole ==
    ASSUME NEW id, NEW sys, SystemFits(sys), NEW d, NEW e, RunsAll(id, sys, d),
           DOMAIN e = DOMAIN d, \A p \in DOMAIN d : Written1(d[p], e[p])
    PROVE  RunsAll(id, sys, e)
<1> SUFFICES ASSUME NEW g \in FirmwareList(sys, e, id, args[id]), HasTemplate(g)
             PROVE  g.place \in DOMAIN e /\ Problem(sys, e, g) = ""
  BY DEF RunsAll
<1> DEFINE a == args[id]
<1>1. PICK i \in FlashIn(id, a) : g = Entry(sys, e, id, a, i)
  BY ListIs
<1> DEFINE p == FlashPlace(id, a, i)
           f == FlashFile(e, id, a, i)
<1>2. Entry(sys, e, id, a, i) = Entry(sys, d, id, a, i)
  <2>1. CASE p \in DOMAIN d
    BY <2>1, EntryStays DEF Written1
  <2>2. CASE p \notin DOMAIN d
    BY <2>2, EntryStays
  <2> QED BY <2>1, <2>2
<1>3. g \in FirmwareList(sys, d, id, a)
  BY <1>1, <1>2, ListIs
<1>4. g.place \in DOMAIN d /\ Problem(sys, d, g) = ""
  BY <1>3 DEF RunsAll
<1>5. Fits(d[g.place], g.format, g.role, sys[g.template])
  BY <1>4, ProblemIs DEF HasTemplate
<1>6. g.role = f.role /\ g.template = TemplateOf(sys, f, CodeName(a))
  BY <1>1 DEF Entry, WithTemplate
<1>7. g.role = "Vars" => sys[g.template].head \notin {"code", "newer code"}
  BY <1>6, VarsTemplate DEF HasTemplate
<1>8. Fits(e[g.place], g.format, g.role, sys[g.template])
  BY <1>4, <1>5, <1>7, WrittenFits
<1> QED BY <1>4, <1>8, ProblemIs DEF HasTemplate

(* So does a newer release of the templates.                               *)
LEMMA UpdateKeepsWhole ==
    ASSUME NEW id, NEW sys, SystemFits(sys), NEW d, NEW newer, RunsAll(id, sys, d),
           DOMAIN newer = DOMAIN sys, \A name \in DOMAIN sys : Newer(sys[name], newer[name])
    PROVE  RunsAll(id, newer, d)
<1> SUFFICES ASSUME NEW g \in FirmwareList(newer, d, id, args[id]), HasTemplate(g)
             PROVE  g.place \in DOMAIN d /\ Problem(newer, d, g) = ""
  BY DEF RunsAll
<1> DEFINE a == args[id]
<1>1. PICK i \in FlashIn(id, a) : g = Entry(newer, d, id, a, i)
  BY ListIs
<1> DEFINE f == FlashFile(d, id, a, i)
<1>2. Entry(newer, d, id, a, i) = Entry(sys, d, id, a, i)
  BY DEF Entry, WithTemplate, TemplateOf
<1>3. g \in FirmwareList(sys, d, id, a)
  BY <1>1, <1>2, ListIs
<1>4. g.place \in DOMAIN d /\ Problem(sys, d, g) = ""
  BY <1>3 DEF RunsAll
<1>5. Fits(d[g.place], g.format, g.role, sys[g.template])
  BY <1>4, ProblemIs DEF HasTemplate
<1>6. g.role = f.role /\ g.template = TemplateOf(sys, f, CodeName(a)) /\ HasRole(f)
  BY <1>1, <1>2 DEF Entry, WithTemplate, FlashFile, HasRole
<1>7. g.role = "Vars" => sys[g.template].head \notin {"code", "newer code"}
  BY <1>6, VarsTemplate DEF HasTemplate
<1>8. g.template \in DOMAIN sys
  BY <1>6, TemplateThere DEF HasTemplate
<1>9. Fits(d[g.place], g.format, g.role, newer[g.template])
  BY <1>5, <1>7, <1>8, NewerFits
<1> QED BY <1>4, <1>9, ProblemIs DEF HasTemplate

WholeInv ==
    /\ DOMAIN args = Ids
    /\ SystemFits(system)
    /\ running \subseteq Ids
    /\ \A id \in running : args[id] # <<>>
    /\ args["clone"] # <<>> => args["vm"] # <<>> /\ "vm" \notin running
    /\ RunsWhole

(* One VM at most runs.                                                    *)
LEMMA RunsAlone ==
    ASSUME WholeInv, NEW id \in Ids, Stopped(id)
    PROVE  running = {}
  BY DEF WholeInv, Stopped, IsUsed, Ids

LEMMA DamagedReplaceable ==
    ASSUME WholeInv, Regular, NEW id \in Ids, NEW list \in SUBSET Firmware(id),
           \A f \in list : HasTemplate(f) /\ f.place \in DOMAIN files, HasRoom(list)
    PROVE  IsFiniteSet(list) /\ AllReplaceable(system, files, list)
<1>1. OwnFlash(id)
  BY DEF Regular
<1>2. IsFiniteSet(list)
  BY <1>1, ListFacts, FS_Subset DEF Firmware
<1>3. ASSUME NEW f \in list
      PROVE  Replaceable(system, files, f)
  <2>1. f.place \in Paths /\ f.template \in DOMAIN system
    BY <1>1, ListFacts DEF Firmware, HasTemplate
  <2>2. IsContent(system[f.template])
    BY <2>1 DEF WholeInv, SystemFits
  <2>3. FreeNumbers(files, f.place) # {}
    BY DEF HasRoom
  <2> QED BY <2>1, <2>2, <2>3 DEF Replaceable, HasTemplate
<1>4. \A f, g \in list : f.place = g.place => f = g
  BY <1>1, ListFacts DEF Firmware
<1>5. \A q \in DOMAIN files : IsContent(files[q])
  BY DEF Regular
<1> QED BY <1>2, <1>3, <1>4, <1>5 DEF AllReplaceable

(* What was replaced before a start, or not.                               *)
LEMMA BeginsWhole ==
    ASSUME WholeInv, Regular, NEW id \in Ids, NEW d, NEW with,
           Begins(id, d, with), running = {}, UNCHANGED <<host, system, args>>,
           with = {} => \A i \in FlashIn(id, args[id]) : LineSound(id, d, i)
    PROVE  /\ running' \subseteq {id}
           /\ \A x \in running' \ anyway' : RunsAll(x, system, files')
<1>1. PICK e : e = files'
  OBVIOUS
<1>2. e = Remade(id, d) /\ running' = (IF QemuTakes(e, id) THEN {id} ELSE {})
  BY <1>1 DEF Begins, QemuTakes
<1>3. running' \subseteq {id}
  BY <1>2
<1>4. ASSUME NEW x \in running' \ anyway'
      PROVE  RunsAll(x, system, e)
  <2>1. x = id /\ QemuTakes(e, id)
    BY <1>2
  <2>2. with = {}
    BY <1>2, <2>1 DEF Begins
  <2>3. SystemFits(system) /\ OwnFlash(id)
    BY DEF WholeInv, Regular
  <2> QED BY <1>2, <2>1, <2>2, <2>3, StartsWhole
<1> QED BY <1>1, <1>3, <1>4

(* The list, for the computer h.                                           *)
ListFor(h, sys, d, id, a) ==
    {LET f == FlashFile(d, id, a, i) IN
     [role |-> f.role, place |-> f.place, format |-> f.format,
      template |->
        LET fit  == {fw \in Firmwares : /\ fw.arch = h /\ Rank(f, fw, CodeName(a)) > 0
                                        /\ TemplateName(f, fw) \in DOMAIN sys}
            best == {fw \in fit : \A other \in fit :
                         Rank(f, other, CodeName(a)) <= Rank(f, fw, CodeName(a))}
        IN  IF fit = {} THEN ""
            ELSE TemplateName(f, CHOOSE fw \in best : \A other \in best : fw.order <= other.order)] :
        i \in FlashIn(id, a)}

LEMMA WholeThen ==
    ASSUME host' = host, args' = args,
           \A id \in running' \ anyway' : RunsAll(id, system', files')
    PROVE  RunsWhole'
<1>1. ASSUME NEW id
      PROVE  Firmware(id)' = ListFor(host', system', files', id, args'[id])
  BY DEF Firmware, FirmwareList, Entry, WithTemplate, TemplateOf, ListFor
<1>2. ASSUME NEW id
      PROVE  FirmwareList(system', files', id, args[id]) = ListFor(host, system', files', id, args[id])
  BY DEF FirmwareList, Entry, WithTemplate, TemplateOf, ListFor
<1>3. ASSUME NEW id
      PROVE  Firmware(id)' = FirmwareList(system', files', id, args[id])
  BY <1>1, <1>2
<1>4. ASSUME NEW id \in running' \ anyway', NEW f \in Firmware(id)', f.template # ""
      PROVE  f.place \in DOMAIN files' /\ Problem(system', files', f) = ""
  BY <1>3, <1>4 DEF RunsAll, HasTemplate
<1> QED BY <1>4 DEF RunsWhole

LEMMA RunsAllNow ==
    ASSUME RunsWhole, NEW id \in running \ anyway
    PROVE  RunsAll(id, system, files)
  BY DEF RunsWhole, RunsAll, Firmware, HasTemplate

LEMMA NoneRuns ==
    ASSUME running' = {}
    PROVE  RunsWhole'
  BY DEF RunsWhole

LEMMA InitWhole ==
    ASSUME Init
    PROVE  WholeInv
<1>1. DOMAIN args = Ids /\ args["clone"] = <<>>
  BY DEF Init, Ids
<1>2. SystemFits(system)
  BY TemplatesAssumption DEF Init, SystemFits
<1>3. running = {}
  BY DEF Init
<1> QED BY <1>1, <1>2, <1>3 DEF WholeInv, RunsWhole

LEMMA StartKeeps ==
    ASSUME WholeInv, Regular, NEW id \in Ids, Start(id)
    PROVE  WholeInv'
<1>1. running = {} /\ UNCHANGED <<host, system, args>> /\ args[id] # <<>>
  BY RunsAlone DEF Start, Stopped, IsUsed
<1>2. /\ running' \subseteq {id}
      /\ \A x \in running' \ anyway' : RunsAll(x, system, files')
  <2>1. CASE Begins(id, files, Damaged(id))
    <3>1. Damaged(id) = {} => \A i \in FlashIn(id, args[id]) : LineSound(id, files, i)
      BY UndamagedSound
    <3> QED BY <1>1, <2>1, <3>1, BeginsWhole
  <2>2. ASSUME HasRoom(Damaged(id)), NEW fails, NEW done,
               done = Replace(system, files, Damaged(id), fails), done.ok,
               Begins(id, done.files, {})
        PROVE  /\ running' \subseteq {id}
               /\ \A x \in running' \ anyway' : RunsAll(x, system, files')
    <3>1. /\ Damaged(id) \in SUBSET Firmware(id)
          /\ \A f \in Damaged(id) : HasTemplate(f) /\ f.place \in DOMAIN files
      BY DEF Damaged, HasTemplate
    <3>2. IsFiniteSet(Damaged(id)) /\ AllReplaceable(system, files, Damaged(id))
      BY <2>2, <3>1, DamagedReplaceable
    <3>3. Replaced(system, files, Damaged(id), done)
      BY <2>2, <3>2, ReplaceDoes
    <3>4. SystemFits(system) /\ OwnFlash(id)
      BY DEF WholeInv, Regular
    <3>5. \A i \in FlashIn(id, args[id]) : LineSound(id, done.files, i)
      BY <2>2, <3>3, <3>4, ReplacedSound
    <3> QED BY <1>1, <2>2, <3>5, BeginsWhole
  <2>3. CASE running' = running
    BY <1>1, <2>3
  <2> QED BY <2>1, <2>2, <2>3 DEF Start
<1>3. RunsWhole'
  BY <1>1, <1>2, WholeThen
<1>4. "vm" \in running' => args["clone"] = <<>>
  <2>1. id = "vm" => args["clone"] = <<>>
    BY DEF Start, Stopped, IsUsed
  <2> QED BY <1>2, <2>1
<1> QED BY <1>1, <1>2, <1>3, <1>4 DEF WholeInv

(* What the guest writes.                                                  *)
LEMMA UseWrites ==
    ASSUME Regular, NEW id \in Ids, Use(id), NEW e, e = files'
    PROVE  /\ DOMAIN e = DOMAIN files /\ \A p \in DOMAIN files : Written1(files[p], e[p])
           /\ \A p \in DOMAIN files \ WholeFiles(id) : e[p] = files[p]
<1>1. PICK snapshot \in BOOLEAN :
          e = [p \in DOMAIN files |->
                  IF p \in WholeFiles(id)
                  THEN [files[p] EXCEPT
                           !.data = id, !.snaps = @ \/ (snapshot /\ files[p].fmt = "qcow2"),
                           !.head = IF @ = "blank" /\ files[p].size # "disk" THEN "vars" ELSE @]
                  ELSE files[p]]
  BY DEF Use
<1>2. ASSUME NEW p \in DOMAIN files
      PROVE  Written1(files[p], e[p])
  <2>1. IsContent(files[p])
    BY DEF Regular
  <2>2. CASE p \notin WholeFiles(id)
    BY <1>1, <2>2 DEF Written1
  <2>3. CASE p \in WholeFiles(id)
    <3> DEFINE c == files[p]
    <3>1. e[p] = [c EXCEPT !.data = id, !.snaps = @ \/ (snapshot /\ c.fmt = "qcow2"),
                           !.head = IF @ = "blank" /\ c.size # "disk" THEN "vars" ELSE @]
      BY <1>1, <2>3
    <3> HIDE DEF c
    <3> QED BY <2>1, <3>1 DEF Written1, IsContent, c
  <2> QED BY <2>2, <2>3
<1> QED BY <1>1, <1>2

LEMMA UseKeeps ==
    ASSUME WholeInv, Regular, NEW id \in Ids, Use(id)
    PROVE  WholeInv'
<1>1. UNCHANGED <<host, system, args, running, anyway>>
  BY DEF Use
<1>2. PICK e : e = files'
  OBVIOUS
<1>3. DOMAIN e = DOMAIN files /\ \A p \in DOMAIN files : Written1(files[p], e[p])
  BY <1>2, UseWrites
<1>4. ASSUME NEW x \in running \ anyway
      PROVE  RunsAll(x, system, e)
  <2>1. RunsAll(x, system, files) /\ SystemFits(system)
    BY RunsAllNow DEF WholeInv
  <2> QED BY <1>3, <2>1, UseKeepsWhole
<1>5. RunsWhole'
  BY <1>1, <1>2, <1>4, WholeThen
<1> QED BY <1>1, <1>5 DEF WholeInv

LEMMA UpdateIs ==
    ASSUME WholeInv, Update, NEW newer, newer = system'
    PROVE  /\ DOMAIN newer = DOMAIN system
           /\ \A name \in DOMAIN system : Newer(system[name], newer[name]) /\ IsContent(newer[name])
<1>3. newer = [name \in DOMAIN system |->
                  IF system[name].head = "code"
                  THEN [system[name] EXCEPT !.head = "newer code"] ELSE system[name]]
  BY DEF Update
<1>4. ASSUME NEW name \in DOMAIN system
      PROVE  Newer(system[name], newer[name]) /\ IsContent(newer[name])
  <2>1. IsContent(system[name])
    BY DEF WholeInv, SystemFits
  <2> DEFINE c == system[name]
  <2>2. CASE c.head # "code"
    BY <1>3, <2>1, <2>2 DEF Newer
  <2>3. CASE c.head = "code"
    <3>1. newer[name] = [c EXCEPT !.head = "newer code"]
      BY <1>3, <2>3
    <3> HIDE DEF c
    <3>2. Newer(c, newer[name]) /\ IsContent(newer[name])
      BY <2>1, <2>3, <3>1 DEF Newer, IsContent, c
    <3> QED BY <3>2 DEF c
  <2> QED BY <2>2, <2>3
<1> QED BY <1>3, <1>4

LEMMA UpdateKeeps ==
    ASSUME WholeInv, Update
    PROVE  WholeInv'
<1>1. UNCHANGED <<host, args, files, running, anyway>>
  BY DEF Update
<1>2. PICK newer : newer = system'
  OBVIOUS
<1>3. newer = [name \in DOMAIN system |->
                  IF system[name].head = "code"
                  THEN [system[name] EXCEPT !.head = "newer code"] ELSE system[name]]
  BY <1>2 DEF Update
<1>4. \A name \in DOMAIN system : Newer(system[name], newer[name]) /\ IsContent(newer[name])
  BY <1>2, UpdateIs
<1>5. SystemFits(newer)
  <2>1. SystemFits(system) /\ DOMAIN newer = DOMAIN system
    BY <1>3 DEF WholeInv
  <2>2. ASSUME NEW name \in DOMAIN system, newer[name].head # Templates[name].head
        PROVE  Templates[name].head = "code" /\ newer[name].head = "newer code"
    <3>1. CASE newer[name].head = system[name].head
      BY <2>1, <2>2, <3>1 DEF SystemFits
    <3>2. CASE system[name].head = "code" /\ newer[name].head = "newer code"
      BY <2>1, <3>2 DEF SystemFits
    <3> QED BY <1>4, <3>1, <3>2 DEF Newer
  <2> QED BY <1>4, <2>1, <2>2 DEF SystemFits, Newer
<1>6. ASSUME NEW x \in running \ anyway
      PROVE  RunsAll(x, newer, files)
  <2>1. RunsAll(x, system, files) /\ SystemFits(system)
    BY RunsAllNow DEF WholeInv
  <2> QED BY <1>3, <1>4, <2>1, UpdateKeepsWhole
<1>7. RunsWhole'
  BY <1>1, <1>2, <1>6, WholeThen
<1> QED BY <1>1, <1>2, <1>5, <1>7 DEF WholeInv

(* The other steps run no VM, or change nothing that one has.              *)
LEMMA OthersKeep ==
    ASSUME WholeInv,
           \/ New
           \/ \E script \in Scripts[host] : Import(script)
           \/ \E id \in Ids : Reset(id) \/ ShutDown(id) \/ Harm(id) \/ RemoveFile(id)
           \/ Clone
           \/ UNCHANGED vars
    PROVE  WholeInv'
<1>1. ASSUME NEW id \in Ids, Reset(id) \/ RemoveFile(id)
      PROVE  WholeInv'
  <2>1. running = {} /\ UNCHANGED <<system, args, running>>
    BY <1>1, RunsAlone DEF Reset, RemoveFile
  <2>2. RunsWhole'
    BY <2>1, NoneRuns
  <2> QED BY <2>1, <2>2 DEF WholeInv
<1>2. ASSUME NEW id \in Ids, Harm(id)
      PROVE  WholeInv'
  <2>1. running' = {} /\ UNCHANGED <<system, args>>
    BY <1>2 DEF Harm
  <2>2. RunsWhole'
    BY <2>1, NoneRuns
  <2> QED BY <2>1, <2>2 DEF WholeInv
<1>3. ASSUME NEW id \in Ids, ShutDown(id)
      PROVE  WholeInv'
  <2>1. /\ UNCHANGED <<host, system, args, files>>
        /\ running' = running \ {id} /\ anyway' = anyway \ {id}
    BY <1>3 DEF ShutDown
  <2>2. \A x \in running' \ anyway' : RunsAll(x, system, files)
    BY <2>1, RunsAllNow DEF WholeInv
  <2>3. RunsWhole'
    BY <2>1, <2>2, WholeThen
  <2> QED BY <2>1, <2>3 DEF WholeInv
<1>4. ASSUME New \/ \E script \in Scripts[host] : Import(script)
      PROVE  WholeInv'
  <2>1. args["vm"] = <<>>
    BY <1>4 DEF New, Import
  <2>2. args["clone"] = <<>> /\ running = {}
    BY <2>1 DEF WholeInv, Ids
  <2>3. /\ UNCHANGED <<system, running>>
        /\ \E a : args' = [args EXCEPT !["vm"] = a]
    BY <1>4 DEF New, Create, Import
  <2>4. RunsWhole'
    BY <2>2, <2>3, NoneRuns
  <2>5. DOMAIN args' = Ids /\ args'["clone"] = <<>>
    BY <2>2, <2>3 DEF WholeInv, Ids
  <2> QED BY <2>2, <2>3, <2>4, <2>5 DEF WholeInv
<1>5. ASSUME Clone
      PROVE  WholeInv'
  <2>1. running = {}
    BY <1>5, RunsAlone DEF Clone, Ids
  <2>2. /\ UNCHANGED <<system, running>> /\ args["vm"] # <<>>
        /\ \E a : args' = [args EXCEPT !["clone"] = a]
    BY <1>5 DEF Clone, Stopped, IsUsed
  <2>3. RunsWhole'
    BY <2>1, <2>2, NoneRuns
  <2>4. DOMAIN args' = Ids /\ args'["vm"] = args["vm"]
    BY <2>2 DEF WholeInv, Ids
  <2> QED BY <2>1, <2>2, <2>3, <2>4 DEF WholeInv
<1>6. ASSUME UNCHANGED vars
      PROVE  WholeInv'
  <2>1. UNCHANGED <<host, system, args, files, running, anyway>>
    BY <1>6 DEF vars
  <2>2. \A x \in running' \ anyway' : RunsAll(x, system, files)
    BY <2>1, RunsAllNow DEF WholeInv
  <2>3. RunsWhole'
    BY <2>1, <2>2, WholeThen
  <2> QED BY <2>1, <2>3 DEF WholeInv
<1> QED BY <1>1, <1>2, <1>3, <1>4, <1>5, <1>6

LEMMA NextKeepsWhole ==
    ASSUME WholeInv, Regular, [Next]_vars
    PROVE  WholeInv'
<1>1. CASE \E id \in Ids : Start(id)
  BY <1>1, StartKeeps
<1>2. CASE \E id \in Ids : Use(id)
  BY <1>2, UseKeeps
<1>3. CASE Update
  BY <1>3, UpdateKeeps
<1>4. CASE \/ New
           \/ \E script \in Scripts[host] : Import(script)
           \/ \E id \in Ids : Reset(id) \/ ShutDown(id) \/ Harm(id) \/ RemoveFile(id)
           \/ Clone
           \/ UNCHANGED vars
  BY <1>4, OthersKeep
<1> QED BY <1>1, <1>2, <1>3, <1>4 DEF Next

-----------------------------------------------------------------------------
(* Nothing is lost                                                         *)

AllKept(d, e) == \A p \in DOMAIN d : Keeps(d, e, p)

LEMMA ReplacedKeeps ==
    ASSUME NEW sys, NEW d, NEW list, NEW done, Replaced(sys, d, list, done)
    PROVE  AllKept(d, done.files)
<1> SUFFICES ASSUME NEW p \in DOMAIN d
             PROVE  Keeps(d, done.files, p)
  BY DEF AllKept
<1>1. CASE \E f \in list : f.place = p
  BY <1>1 DEF Replaced
<1>2. CASE \A f \in list : f.place # p
  BY <1>2 DEF Replaced, Keeps
<1> QED BY <1>1, <1>2

(* What is made again is added.                                            *)
LEMMA RemadeKeeps ==
    ASSUME NEW id \in Ids, OwnFlash(id), NEW d, NEW e, AllKept(d, e)
    PROVE  AllKept(d, Remade(id, e))
<1>1. \A q \in DOMAIN e : q \in DOMAIN Remade(id, e) /\ Remade(id, e)[q] = e[q]
  BY RemadeIs
<1> QED BY <1>1 DEF AllKept, Keeps

LEMMA ResetKeeps ==
    ASSUME WholeInv, Regular, NEW id \in Ids, NEW f \in Firmware(id), HasTemplate(f),
           HasRoom({f}), NEW fails
    PROVE  AllKept(files, ResetFile(system, files, f, fails).files)
<1> DEFINE p == f.place
           e == ResetFile(system, files, f, fails).files
<1>1. CASE p \in DOMAIN files
  <2>1. AllReplaceable(system, files, {f})
    BY <1>1, DamagedReplaceable
  <2>2. /\ p \in Paths /\ IsContent(system[f.template]) /\ FreeNumbers(files, p) # {}
        /\ \A q \in DOMAIN files : IsContent(files[q])
    BY <2>1 DEF AllReplaceable, Replaceable
  <2>3. Resets(files, e, p, BackupOf(files, p), ResetFile(system, files, f, fails).ok,
               system[f.template], f.format)
    BY <1>1, <2>2, ResetIs DEF HasTemplate
  <2>4. BackupOf(files, p) \notin DOMAIN files
    BY <2>2, BackupIs
  <2> HIDE DEF e, p
  <2> QED BY <1>1, <2>3, <2>4 DEF Resets, AllKept, Keeps, e
<1>2. CASE p \notin DOMAIN files
  <2>1. e = files \/ e = Put(files, p, system[f.template])
    BY <1>2 DEF ResetFile, CopyTemplate, Result
  <2>2. \A q \in DOMAIN files : q \in DOMAIN e /\ e[q] = files[q]
    BY <1>2, <2>1 DEF Put
  <2> HIDE DEF e
  <2> QED BY <2>2 DEF AllKept, Keeps, e
<1> QED BY <1>1, <1>2

LEMMA StartKeepsAll ==
    ASSUME WholeInv, Regular, NEW id \in Ids, Start(id)
    PROVE  AllKept(files, files')
<1>1. OwnFlash(id)
  BY DEF Regular
<1>2. AllKept(files, files)
  BY DEF AllKept, Keeps
<1>3. CASE Begins(id, files, Damaged(id))
  BY <1>1, <1>2, <1>3, RemadeKeeps DEF Begins
<1>4. ASSUME HasRoom(Damaged(id)), NEW fails, NEW done,
             done = Replace(system, files, Damaged(id), fails),
             Begins(id, done.files, {}) \/ files' = done.files
      PROVE  AllKept(files, files')
  <2>1. /\ Damaged(id) \in SUBSET Firmware(id)
        /\ \A f \in Damaged(id) : HasTemplate(f) /\ f.place \in DOMAIN files
    BY DEF Damaged, HasTemplate
  <2>2. IsFiniteSet(Damaged(id)) /\ AllReplaceable(system, files, Damaged(id))
    BY <1>4, <2>1, DamagedReplaceable
  <2>3. AllKept(files, done.files)
    BY <1>4, <2>2, ReplaceDoes, ReplacedKeeps
  <2>4. CASE Begins(id, done.files, {})
    BY <1>1, <2>3, <2>4, RemadeKeeps DEF Begins
  <2> QED BY <1>4, <2>3, <2>4
<1> QED BY <1>3, <1>4 DEF Start

Makes ==
    \/ New
    \/ \E script \in Scripts[host] : Import(script)
    \/ Clone

KeptUnlessHarmed ==
    harms' = harms =>
        \A p \in DOMAIN files \ UNION {QemuWrites(args[id], id) : id \in running} :
            Keeps(files, files', p)

LEMMA NextKeepsAll ==
    ASSUME WholeInv, Regular, harms \in Nat, [Next]_vars, Makes => AllKept(files, files')
    PROVE  KeptUnlessHarmed
<1>1. CASE Makes
  BY <1>1 DEF KeptUnlessHarmed, AllKept
<1>2. ASSUME NEW id \in Ids, Start(id)
      PROVE  KeptUnlessHarmed
  BY <1>2, StartKeepsAll DEF KeptUnlessHarmed, AllKept
<1>3. ASSUME NEW id \in Ids, Reset(id)
      PROVE  KeptUnlessHarmed
  <2>1. PICK f \in Firmware(id), fails \in Failing :
            /\ HasTemplate(f) /\ HasRoom({f})
            /\ files' = ResetFile(system, files, f, fails).files
    BY <1>3 DEF Reset, HasTemplate
  <2>2. AllKept(files, files')
    BY <2>1, ResetKeeps
  <2> QED BY <2>2 DEF KeptUnlessHarmed, AllKept
<1>4. ASSUME NEW id \in Ids, Use(id)
      PROVE  KeptUnlessHarmed
  <2> SUFFICES ASSUME NEW p \in DOMAIN files, p \notin QemuWrites(args[id], id)
               PROVE  Keeps(files, files', p)
    BY <1>4 DEF KeptUnlessHarmed, Use
  <2>1. p \notin WholeFiles(id)
    BY DEF WholeFiles
  <2>2. p \in DOMAIN files' /\ files'[p] = files[p]
    BY <1>4, <2>1 DEF Use
  <2> QED BY <2>2 DEF Keeps
<1>5. ASSUME NEW id \in Ids, Harm(id) \/ RemoveFile(id)
      PROVE  KeptUnlessHarmed
  BY <1>5 DEF Harm, RemoveFile, KeptUnlessHarmed
<1>6. CASE (\E id \in Ids : ShutDown(id)) \/ Update \/ UNCHANGED vars
  <2>1. files' = files
    BY <1>6 DEF ShutDown, Update, vars
  <2> QED BY <2>1 DEF KeptUnlessHarmed, Keeps
<1> QED BY <1>1, <1>2, <1>3, <1>4, <1>5, <1>6 DEF Next, Makes

LEMMA HarmsCount ==
    ASSUME harms \in Nat, [Next]_vars
    PROVE  harms' \in Nat
<1>1. harms' = harms \/ harms' = harms + 1
  BY DEF Next, New, Create, Import, Start, Reset, Use, ShutDown, Harm, RemoveFile, Update, Clone,
         vars
<1> QED BY <1>1

KeptInv == WholeInv /\ harms \in Nat

-----------------------------------------------------------------------------
(* A VM stays regular                                                      *)

AllContents(d) == \A q \in DOMAIN d : IsContent(d[q])

LEMMA ResetContents ==
    ASSUME WholeInv, Regular, NEW id \in Ids, NEW f \in Firmware(id), HasTemplate(f),
           HasRoom({f}), NEW fails
    PROVE  AllContents(ResetFile(system, files, f, fails).files)
<1> DEFINE p == f.place
           e == ResetFile(system, files, f, fails).files
<1>1. CASE p \in DOMAIN files
  <2>1. AllReplaceable(system, files, {f})
    BY <1>1, DamagedReplaceable
  <2>2. /\ p \in Paths /\ IsContent(system[f.template]) /\ FreeNumbers(files, p) # {}
        /\ \A q \in DOMAIN files : IsContent(files[q])
    BY <2>1 DEF AllReplaceable, Replaceable
  <2>3. Resets(files, e, p, BackupOf(files, p), ResetFile(system, files, f, fails).ok,
               system[f.template], f.format)
    BY <1>1, <2>2, ResetIs DEF HasTemplate
  <2> HIDE DEF e, p
  <2> QED BY <2>3 DEF Resets, AllContents, e
<1>2. CASE p \notin DOMAIN files
  <2>1. e = files \/ e = Put(files, p, system[f.template])
    BY <1>2 DEF ResetFile, CopyTemplate, Result
  <2>2. f.template \in DOMAIN system
    BY ListFacts DEF Firmware, Regular, HasTemplate
  <2>3. IsContent(system[f.template])
    BY <2>2 DEF WholeInv, SystemFits
  <2>4. \A q \in DOMAIN e : e[q] = system[f.template] \/ (q \in DOMAIN files /\ e[q] = files[q])
    BY <2>1 DEF Put
  <2> HIDE DEF e
  <2> QED BY <2>3, <2>4 DEF AllContents, Regular, e
<1> QED BY <1>1, <1>2

LEMMA RemadeContents ==
    ASSUME WholeInv, NEW id \in Ids, OwnFlash(id), NEW d, AllContents(d)
    PROVE  AllContents(Remade(id, d))
<1> DEFINE e == Remade(id, d)
<1>1. /\ \A q \in DOMAIN d : e[q] = d[q]
      /\ \A q \in DOMAIN e \ DOMAIN d : \E t \in DOMAIN system : e[q] = system[t]
  BY RemadeIs
<1>2. \A t \in DOMAIN system : IsContent(system[t])
  BY DEF WholeInv, SystemFits
<1> HIDE DEF e
<1> QED BY <1>1, <1>2 DEF AllContents, e

LEMMA StartContents ==
    ASSUME WholeInv, Regular, NEW id \in Ids, Start(id)
    PROVE  AllContents(files')
<1>1. OwnFlash(id) /\ AllContents(files)
  BY DEF Regular, AllContents
<1>2. CASE Begins(id, files, Damaged(id))
  BY <1>1, <1>2, RemadeContents DEF Begins
<1>3. ASSUME HasRoom(Damaged(id)), NEW fails, NEW done,
             done = Replace(system, files, Damaged(id), fails),
             Begins(id, done.files, {}) \/ files' = done.files
      PROVE  AllContents(files')
  <2>1. /\ Damaged(id) \in SUBSET Firmware(id)
        /\ \A f \in Damaged(id) : HasTemplate(f) /\ f.place \in DOMAIN files
    BY DEF Damaged, HasTemplate
  <2>2. IsFiniteSet(Damaged(id)) /\ AllReplaceable(system, files, Damaged(id))
    BY <1>3, <2>1, DamagedReplaceable
  <2>3. AllContents(done.files)
    BY <1>3, <2>2, ReplaceDoes DEF Replaced, AllContents
  <2>4. CASE Begins(id, done.files, {})
    BY <1>1, <2>3, <2>4, RemadeContents DEF Begins
  <2> QED BY <1>3, <2>3, <2>4
<1> QED BY <1>2, <1>3 DEF Start

LEMMA RuinedContent ==
    ASSUME NEW c, IsContent(c), NEW r \in Ruined(c)
    PROVE  IsContent(r)
<1>1. \/ r = [c EXCEPT !.size = "none"] \/ r = [c EXCEPT !.head = "garbage"]
      \/ r = [c EXCEPT !.size = "less"] \/ r = [c EXCEPT !.tables = "bad"]
      \/ r = [c EXCEPT !.fmt = "raw", !.head = "garbage"]
  BY DEF Ruined
<1> QED BY <1>1 DEF IsContent, IsFormat

LEMMA HarmContents ==
    ASSUME Regular, NEW id \in Ids, Harm(id)
    PROVE  AllContents(files')
<1>1. PICK p \in DOMAIN files :
          \/ \E c \in Ruined(files[p]) : files' = [files EXCEPT ![p] = c]
          \/ files' = [files EXCEPT ![p].head = "blank"]
  BY DEF Harm
<1>2. IsContent(files[p]) /\ IsContent([files[p] EXCEPT !.head = "blank"])
  BY DEF Regular, IsContent
<1>3. \E c : IsContent(c) /\ files' = [files EXCEPT ![p] = c]
  BY <1>1, <1>2, RuinedContent
<1> QED BY <1>3 DEF Regular, AllContents

LEMMA SnapsContent ==
    ASSUME NEW c, IsContent(c), NEW snaps
    PROVE  IsContent([c EXCEPT !.snaps = snaps])
  BY DEF IsContent

LEMMA HeadContent ==
    ASSUME NEW c, IsContent(c), NEW head
    PROVE  IsContent([c EXCEPT !.head = head])
  BY DEF IsContent

LEMMA UseContents ==
    ASSUME Regular, NEW id \in Ids, Use(id)
    PROVE  AllContents(files')
<1>1. PICK snapshot \in BOOLEAN :
          files' = [p \in DOMAIN files |->
                    IF p \in WholeFiles(id)
                    THEN [files[p] EXCEPT
                             !.data = id, !.snaps = @ \/ (snapshot /\ files[p].fmt = "qcow2"),
                             !.head = IF @ = "blank" /\ files[p].size # "disk" THEN "vars" ELSE @]
                    ELSE files[p]]
  BY DEF Use
<1>2. ASSUME NEW p \in DOMAIN files
      PROVE  IsContent(files'[p])
  <2> DEFINE c == files[p]
             now == [c EXCEPT !.data = id, !.snaps = @ \/ (snapshot /\ c.fmt = "qcow2"),
                              !.head = IF @ = "blank" /\ c.size # "disk" THEN "vars" ELSE @]
  <2>1. IsContent(c)
    BY DEF Regular
  <2>2. files'[p] = c \/ files'[p] = now
    BY <1>1
  <2>3. IsContent(now)
    <3> HIDE DEF c
    <3> DEFINE snaps == c.snaps \/ (snapshot /\ c.fmt = "qcow2")
               head == IF c.head = "blank" /\ c.size # "disk" THEN "vars" ELSE c.head
    <3>1. now = [[[c EXCEPT !.data = id] EXCEPT !.snaps = snaps] EXCEPT !.head = head]
      OBVIOUS
    <3> HIDE DEF snaps, head
    <3> QED BY <2>1, <3>1, DataContent, SnapsContent, HeadContent
  <2> HIDE DEF c, now
  <2> QED BY <2>1, <2>2, <2>3
<1> QED BY <1>1, <1>2 DEF AllContents

LEMMA RegularThen ==
    ASSUME Regular, args' = args, AllContents(files'), harmed' \subseteq DOMAIN files'
    PROVE  Regular'
<1>1. \A id \in Ids : OwnFlash(id)'
  BY DEF Regular, OwnFlash
<1> QED BY <1>1 DEF Regular, AllContents

LEMMA NextKeepsRegular ==
    ASSUME WholeInv, Regular, [Next]_vars, Makes => Regular'
    PROVE  Regular'
<1>1. CASE Makes
  BY <1>1
<1>2. ASSUME NEW id \in Ids, Start(id)
      PROVE  Regular'
  BY <1>2, StartContents, RegularThen DEF Start, StillHarmed
<1>3. ASSUME NEW id \in Ids, Reset(id)
      PROVE  Regular'
  <2>1. PICK f \in Firmware(id), fails \in Failing :
            /\ HasTemplate(f) /\ HasRoom({f}) /\ args' = args
            /\ files' = ResetFile(system, files, f, fails).files
            /\ harmed' = StillHarmed
    BY <1>3 DEF Reset, HasTemplate
  <2> QED BY <2>1, ResetContents, RegularThen DEF StillHarmed
<1>4. ASSUME NEW id \in Ids, Use(id)
      PROVE  Regular'
  <2>1. DOMAIN files' = DOMAIN files /\ harmed' = harmed /\ args' = args
    BY <1>4 DEF Use
  <2>2. AllContents(files')
    BY <1>4, UseContents
  <2> QED BY <2>1, <2>2, RegularThen DEF Regular
<1>5. ASSUME NEW id \in Ids, Harm(id)
      PROVE  Regular'
  <2>1. args' = args /\ harmed' \subseteq DOMAIN files'
    BY <1>5 DEF Harm, Regular
  <2>2. AllContents(files')
    BY <1>5, HarmContents
  <2> QED BY <2>1, <2>2, RegularThen
<1>6. ASSUME NEW id \in Ids, RemoveFile(id)
      PROVE  Regular'
  <2>1. args' = args /\ \E p : files' = Without(files, p) /\ harmed' = harmed \ {p}
    BY <1>6 DEF RemoveFile
  <2>2. AllContents(files') /\ harmed' \subseteq DOMAIN files'
    BY <2>1 DEF Without, AllContents, Regular
  <2> QED BY <2>1, <2>2, RegularThen
<1>7. CASE (\E id \in Ids : ShutDown(id)) \/ Update \/ UNCHANGED vars
  <2>1. files' = files /\ args' = args /\ harmed' = harmed
    BY <1>7 DEF ShutDown, Update, vars
  <2> QED BY <2>1, RegularThen DEF Regular, AllContents
<1> QED BY <1>1, <1>2, <1>3, <1>4, <1>5, <1>6, <1>7 DEF Next, Makes

-----------------------------------------------------------------------------
(* What is damaged is told                                                 *)

HasFormat(a, i) == ToldFormat(a, i) # ""

AllVolumes(sys) == \A name \in DOMAIN sys : IsVolume(sys[name])

AgreesWith(sys, d, id, a, i) ==
    LET f == Entry(sys, d, id, a, i)
    IN  HasFormat(a, i) => /\ IsFormat(ToldFormat(a, i))
                           /\ HasTemplate(f) => sys[f.template].fmt = ToldFormat(a, i)

(* A file of d that is not half written fits unless it is among those      *)
(* that were harmed.                                                       *)
Tells(sys, d, h, id, a, i) ==
    LET f == Entry(sys, d, id, a, i)
        c == d[f.place]
    IN  HasTemplate(f) /\ f.place \in DOMAIN d /\ ~HalfWritten(c) =>
            (Fits(c, f.format, f.role, sys[f.template]) <=> f.place \notin h)

LEMMA FormatIs ==
    ASSUME NEW d, NEW a, NEW i, NEW p
    PROVE  /\ HasFormat(a, i) => FormatOf(d, a, i, p) = ToldFormat(a, i)
           /\ ~HasFormat(a, i) /\ p \in DOMAIN d => FormatOf(d, a, i, p) = d[p].fmt
  BY DEF FormatOf, HasFormat

LEMMA EntryTemplate ==
    ASSUME NEW sys, NEW d, NEW id, NEW a, NEW i, HasTemplate(Entry(sys, d, id, a, i))
    PROVE  Entry(sys, d, id, a, i).template \in DOMAIN sys
<1> DEFINE f == Entry(sys, d, id, a, i)
           g == FlashFile(d, id, a, i)
<1>1. /\ HasRole(f) /\ f.role = g.role /\ f.template = TemplateOf(sys, g, CodeName(a))
  BY EntryIs
<1>2. HasRole(g)
  BY <1>1 DEF HasRole
<1> QED BY <1>1, <1>2, TemplateThere DEF HasTemplate

LEMMA WholeModel ==
    ASSUME NEW m, IsContent(m), IsVolume(m)
    PROVE  Inspect(m, "").problem = "" /\ Inspect(m, m.fmt).problem = "" /\ m.size # "none"
<1>1. CASE m.fmt = "qcow2"
  BY <1>1 DEF Inspect, ReadQcow2, Image, Bad, IsVolume
<1>2. CASE m.fmt = "raw"
  BY <1>2 DEF Inspect, ReadQcow2, Image, Bad, IsVolume
<1> QED BY <1>1, <1>2 DEF IsContent, IsFormat

(* A copy of its template fits.                                            *)
LEMMA FreshFits ==
    ASSUME NEW sys, SystemFits(sys), AllVolumes(sys), NEW d, NEW e, NEW id, NEW a, NEW i,
           FlashPlace(id, a, i) \in DOMAIN e,
           HasTemplate(Entry(sys, d, id, a, i)), AgreesWith(sys, d, id, a, i),
           e[FlashPlace(id, a, i)] = sys[Entry(sys, d, id, a, i).template]
    PROVE  Fits(e[FlashPlace(id, a, i)], Entry(sys, e, id, a, i).format,
                Entry(sys, e, id, a, i).role, sys[Entry(sys, e, id, a, i).template])
<1> DEFINE p == FlashPlace(id, a, i)
           f == Entry(sys, d, id, a, i)
           g == Entry(sys, e, id, a, i)
           m == sys[f.template]
<1>1. g.template = f.template
  BY EntryRenewed
<1>2. HasRole(g) /\ g.format = FormatOf(e, a, i, p)
  BY EntryIs
<1>3. IsContent(m) /\ IsVolume(m)
  BY EntryTemplate DEF SystemFits, AllVolumes
<1>4. g.format = m.fmt
  <2>1. CASE HasFormat(a, i)
    BY <1>2, <2>1, FormatIs DEF AgreesWith
  <2>2. CASE ~HasFormat(a, i)
    <3>1. FormatOf(e, a, i, p) = e[p].fmt
      BY <2>2, FormatIs
    <3> QED BY <1>2, <3>1
  <2> QED BY <2>1, <2>2
<1>5. e[p] = m
  OBVIOUS
<1> HIDE DEF f, g, m, p
<1>6. HasRole([role |-> g.role])
  BY <1>2 DEF HasRole
<1>7. Fits(m, g.format, g.role, m)
  BY <1>3, <1>4, <1>6, WholeModel, RenewedFits
<1> QED BY <1>1, <1>5, <1>7 DEF f, g, m, p

(* So does a file into which its template was written.                     *)
LEMMA ConvertedFits ==
    ASSUME NEW c, NEW old, NEW model, NEW format, Converted(c, old, model, format),
           NEW role, HasRole([role |-> role])
    PROVE  Fits(c, format, role, model) /\ c.fmt = old.fmt
<1>1. Inspect(c, format).problem = ""
  BY DEF Converted, Inspect, ReadQcow2, Image, Bad
<1> QED BY <1>1, RenewedFits DEF Converted

(* What becomes of the file of a line.                                     *)
Becomes(sys, d, e, id, a, i) ==
    LET p == FlashPlace(id, a, i)
        f == Entry(sys, d, id, a, i)
    IN  p \in DOMAIN e =>
            \/ p \in DOMAIN d /\ e[p] = d[p]
            \/ HalfWritten(e[p])
            \/ HasTemplate(f) /\ e[p] = sys[f.template]
            \/ /\ p \in DOMAIN d /\ HasTemplate(f)
               /\ Converted(e[p], d[p], sys[f.template], f.format)

LEMMA StaysTold ==
    ASSUME NEW sys, NEW d, NEW e, NEW h, NEW k, NEW id, NEW a, NEW i,
           Tells(sys, d, h, id, a, i),
           FlashPlace(id, a, i) \in DOMAIN e =>
               /\ FlashPlace(id, a, i) \in DOMAIN d
               /\ e[FlashPlace(id, a, i)] = d[FlashPlace(id, a, i)]
               /\ FlashPlace(id, a, i) \in k <=> FlashPlace(id, a, i) \in h
    PROVE  Tells(sys, e, k, id, a, i)
<1> DEFINE p == FlashPlace(id, a, i)
           f == Entry(sys, d, id, a, i)
           g == Entry(sys, e, id, a, i)
<1>1. f.place = p /\ g.place = p
  BY EntryIs
<1>2. CASE p \notin DOMAIN e
  BY <1>1, <1>2 DEF Tells
<1>3. CASE p \in DOMAIN e
  <2>1. p \in DOMAIN d /\ e[p] = d[p] /\ (p \in k <=> p \in h)
    BY <1>3
  <2>2. g = f
    BY <1>3, <2>1, EntryStays
  <2> HIDE DEF p, f, g
  <2> QED BY <1>1, <1>3, <2>1, <2>2 DEF Tells, f, g
<1> QED BY <1>2, <1>3

LEMMA BecomesTold ==
    ASSUME NEW sys, SystemFits(sys), AllVolumes(sys), NEW d, NEW e, NEW id, NEW a, NEW i,
           AgreesWith(sys, d, id, a, i), Becomes(sys, d, e, id, a, i),
           NEW h, h \subseteq DOMAIN d, Tells(sys, d, h, id, a, i),
           NEW k, k = {q \in h : q \in DOMAIN e /\ e[q] = d[q]}
    PROVE  Tells(sys, e, k, id, a, i)
<1> DEFINE p == FlashPlace(id, a, i)
           f == Entry(sys, d, id, a, i)
           g == Entry(sys, e, id, a, i)
<1>0. FlashFile(e, id, a, i).role = FlashFile(d, id, a, i).role
  BY DEF FlashFile
<1>1. f.place = p /\ g.place = p /\ f.role = g.role /\ HasRole([role |-> g.role])
  BY <1>0, EntryIs DEF HasRole
<1>2. CASE p \in DOMAIN e => p \in DOMAIN d /\ e[p] = d[p]
  <2>1. p \in DOMAIN e => p \in DOMAIN d /\ e[p] = d[p] /\ (p \in k <=> p \in h)
    BY <1>2
  <2> QED BY <2>1, StaysTold
<1>3. CASE p \in DOMAIN e /\ ~(p \in DOMAIN d /\ e[p] = d[p])
  <2>1. p \notin k
    BY <1>3
  <2>2. CASE HalfWritten(e[p])
    BY <1>1, <2>2 DEF Tells
  <2>3. CASE HasTemplate(f) /\ e[p] = sys[f.template]
    <3>1. Fits(e[p], g.format, g.role, sys[g.template])
      BY <1>3, <2>3, FreshFits
    <3> QED BY <1>1, <2>1, <3>1 DEF Tells
  <2>4. CASE /\ p \in DOMAIN d /\ HasTemplate(f)
             /\ Converted(e[p], d[p], sys[f.template], f.format)
    <3>1. e[p].fmt = d[p].fmt /\ Fits(e[p], f.format, g.role, sys[f.template])
      BY <1>1, <2>4, ConvertedFits
    <3>2. g = f
      BY <1>3, <2>4, <3>1, EntryStays
    <3> HIDE DEF p, f, g
    <3>3. Fits(e[p], g.format, g.role, sys[g.template])
      BY <3>1, <3>2
    <3> QED BY <1>1, <2>1, <3>3 DEF Tells, g
  <2> QED BY <1>3, <2>2, <2>3, <2>4 DEF Becomes
<1> QED BY <1>2, <1>3

LEMMA AgreesStill ==
    ASSUME NEW sys, NEW d, NEW e, NEW id, NEW a, NEW i, AgreesWith(sys, d, id, a, i)
    PROVE  AgreesWith(sys, e, id, a, i)
<1> SUFFICES ASSUME HasFormat(a, i)
             PROVE  Entry(sys, e, id, a, i) = Entry(sys, d, id, a, i)
  BY DEF AgreesWith
<1> DEFINE p == FlashPlace(id, a, i)
<1>1. FormatOf(e, a, i, p) = FormatOf(d, a, i, p)
  BY FormatIs
<1>2. FlashFile(e, id, a, i) = FlashFile(d, id, a, i)
  BY <1>1 DEF FlashFile
<1> QED BY <1>2 DEF Entry

LEMMA Apart ==
    ASSUME NEW id \in Ids, NEW x \in Ids, NEW p \in Folders[id], p \in Folders[x]
    PROVE  x = id
  BY FoldersAssumption DEF Ids

(* One reset is a replacement of one file.                                 *)
LEMMA OneReplaced ==
    ASSUME NEW sys, NEW d, NEW fails, NEW f, AllReplaceable(sys, d, {f})
    PROVE  \E done : /\ Replaced(sys, d, {f}, done)
                     /\ done.files = ResetFile(sys, d, f, fails).files
<1> DEFINE none == [ok |-> TRUE, files |-> d]
           done == OneReset(sys, fails, none, f)
<1>1. Replaced(sys, d, {}, none)
  BY DEF Replaced, AllReplaceable
<1>2. Replaced(sys, d, {} \cup {f}, done)
  BY <1>1, OneMore
<1>3. done.files = ResetFile(sys, d, f, fails).files
  BY DEF OneReset
<1> HIDE DEF done
<1> QED BY <1>2, <1>3

LEMMA ReplacedBecomes ==
    ASSUME Regular, NEW id \in Ids, NEW list \in SUBSET Firmware(id),
           \A f \in list : HasTemplate(f) /\ f.place \in DOMAIN files,
           NEW done, Replaced(system, files, list, done),
           NEW x \in Ids, NEW i \in FlashIn(x, args[x])
    PROVE  /\ Becomes(system, files, done.files, x, args[x], i)
           /\ FlashPlace(x, args[x], i) \in DOMAIN done.files
                  => FlashPlace(x, args[x], i) \in DOMAIN files
           /\ done.ok /\ FlashPlace(x, args[x], i) \in DOMAIN files
                  => FlashPlace(x, args[x], i) \in DOMAIN done.files
<1> DEFINE p == FlashPlace(x, args[x], i)
           g == Entry(system, files, x, args[x], i)
           e == done.files
<1>1. OwnFlash(id) /\ OwnFlash(x)
  BY DEF Regular
<1>2. p \in Folders[x] /\ p \in Paths /\ g.place = p /\ g \in Firmware(x)
  BY <1>1, InPaths, EntryIs, ListIs DEF OwnFlash, Firmware
<1>3. \A f \in list : f.place \in Folders[id] /\ f.place \in Paths
  BY <1>1, ListFacts DEF Firmware
<1>4. CASE \E f \in list : f.place = p
  <2>1. PICK f \in list : f.place = p
    BY <1>4
  <2>2. x = id
    BY <1>2, <1>3, <2>1, Apart
  <2>3. f = g
    BY <1>1, <1>2, <2>1, <2>2, ListFacts DEF Firmware
  <2>4. HasTemplate(g) /\ p \in DOMAIN files
    BY <2>1, <2>3
  <2>5. p \in DOMAIN e => Ends(e[p], files[p], system[g.template], g.format)
    BY <2>1, <2>3 DEF Replaced
  <2>6. done.ok => p \in DOMAIN e
    BY <2>1 DEF Replaced
  <2> QED BY <2>4, <2>5, <2>6 DEF Ends, Becomes
<1>5. CASE \A f \in list : f.place # p
  <2>1. p \in DOMAIN e => p \in DOMAIN files
    <3>1. ASSUME p \in DOMAIN e, p \notin DOMAIN files
          PROVE  FALSE
      <4>1. PICK f \in list, n \in 1..MaxBackups : p = BackupName(f.place, n)
        BY <3>1 DEF Replaced
      <4> QED BY <1>2, <1>3, <4>1, BackupAssumption
    <3> QED BY <3>1
  <2>2. p \in DOMAIN files => p \in DOMAIN e /\ e[p] = files[p]
    BY <1>5 DEF Replaced
  <2> QED BY <2>1, <2>2 DEF Becomes
<1> QED BY <1>4, <1>5

LEMMA RemadeBecomes ==
    ASSUME Regular, NEW id \in Ids, NEW d, NEW e, e = Remade(id, d),
           NEW x \in Ids, NEW i \in FlashIn(x, args[x]),
           FlashPlace(x, args[x], i) \in DOMAIN files <=> FlashPlace(x, args[x], i) \in DOMAIN d,
           Becomes(system, files, d, x, args[x], i)
    PROVE  Becomes(system, files, e, x, args[x], i)
<1> DEFINE p == FlashPlace(x, args[x], i)
           f == Entry(system, files, x, args[x], i)
           g == Entry(system, d, x, args[x], i)
<1>1. OwnFlash(id) /\ OwnFlash(x)
  BY DEF Regular
<1>2. CASE p \in DOMAIN d
  <2>1. e[p] = d[p]
    BY <1>1, <1>2, RemadeIs
  <2> QED BY <1>2, <2>1 DEF Becomes
<1>3. CASE p \notin DOMAIN d /\ p \in DOMAIN e
  <2>1. p \in Folders[id] /\ p \in Folders[x]
    <3>1. p \in Folders[id]
      BY <1>1, <1>3, RemadeIs
    <3> QED BY <1>1, <3>1 DEF OwnFlash
  <2>2. x = id
    BY <2>1, Apart
  <2>3. HasTemplate(g) /\ e[p] = system[g.template]
    <3>1. \A j \in FlashIn(id, args[id]) :
              FlashPlace(id, args[id], j) \notin DOMAIN d /\ FlashPlace(id, args[id], j) \in DOMAIN e
              => /\ HasTemplate(Entry(system, d, id, args[id], j))
                 /\ e[FlashPlace(id, args[id], j)] = system[Entry(system, d, id, args[id], j).template]
      BY <1>1, RemadeIs
    <3> QED BY <1>3, <2>2, <3>1
  <2>4. g = f
    BY <1>3, EntryStays
  <2> HIDE DEF f, g, p
  <2> QED BY <2>3, <2>4 DEF Becomes, f, g, p
<1>4. CASE p \notin DOMAIN e
  BY <1>4 DEF Becomes
<1> QED BY <1>2, <1>3, <1>4

(* In the state, now and after a step.                                     *)
LEMMA ToldNow ==
    ASSUME DamageIsTold, NEW id \in Ids, NEW i \in FlashIn(id, args[id])
    PROVE  /\ AgreesWith(system, files, id, args[id], i)
           /\ Tells(system, files, harmed, id, args[id], i)
<1> DEFINE f == Entry(system, files, id, args[id], i)
<1>1. AgreesWith(system, files, id, args[id], i)
  <2>1. TellsFormat(id, i)
    BY DEF DamageIsTold, FormatsAgree
  <2> QED BY <2>1 DEF TellsFormat, AgreesWith, HasFormat, HasTemplate
<1>2. f \in Firmware(id)
  BY ListIs DEF Firmware
<1>3. ASSUME HasTemplate(f), f.place \in DOMAIN files, ~HalfWritten(files[f.place])
      PROVE  Problem(system, files, f) # "" <=> f.place \in harmed
  BY <1>2, <1>3 DEF DamageIsTold, HasTemplate, HalfWritten
<1>4. ASSUME HasTemplate(f), f.place \in DOMAIN files
      PROVE  Problem(system, files, f) = "" <=>
                 Fits(files[f.place], f.format, f.role, system[f.template])
  BY <1>4, ProblemIs DEF HasTemplate
<1> HIDE DEF f
<1>5. Tells(system, files, harmed, id, args[id], i)
  BY <1>3, <1>4 DEF Tells, f
<1> QED BY <1>1, <1>5

EntryFor(h, sys, d, id, a, i) ==
    LET f == FlashFile(d, id, a, i) IN
    [role |-> f.role, place |-> f.place, format |-> f.format,
     template |->
        LET fit  == {fw \in Firmwares : /\ fw.arch = h /\ Rank(f, fw, CodeName(a)) > 0
                                        /\ TemplateName(f, fw) \in DOMAIN sys}
            best == {fw \in fit : \A other \in fit :
                         Rank(f, other, CodeName(a)) <= Rank(f, fw, CodeName(a))}
        IN  IF fit = {} THEN ""
            ELSE TemplateName(f, CHOOSE fw \in best : \A other \in best : fw.order <= other.order)]

LEMMA EntryThen ==
    ASSUME host' = host, args' = args, NEW id, NEW i
    PROVE  Entry(system, files, id, args[id], i)' = Entry(system', files', id, args[id], i)
<1>1. Entry(system, files, id, args[id], i)' = EntryFor(host', system', files', id, args'[id], i)
  BY DEF Entry, WithTemplate, TemplateOf, EntryFor
<1>2. Entry(system', files', id, args[id], i) = EntryFor(host, system', files', id, args[id], i)
  BY DEF Entry, WithTemplate, TemplateOf, EntryFor
<1> QED BY <1>1, <1>2

LEMMA ToldThen ==
    ASSUME host' = host, args' = args, Regular', AllVolumes(system'),
           \A id \in Ids : \A i \in FlashIn(id, args[id]) :
              /\ AgreesWith(system', files', id, args[id], i)
              /\ Tells(system', files', harmed', id, args[id], i)
    PROVE  DamageIsTold'
<1>1. ASSUME NEW id \in Ids, NEW i \in FlashIn(id, args[id])
      PROVE  TellsFormat(id, i)'
  <2>1. AgreesWith(system', files', id, args[id], i)
    OBVIOUS
  <2>2. Entry(system, files, id, args[id], i)' = Entry(system', files', id, args[id], i)
    BY EntryThen
  <2> QED BY <2>1, <2>2 DEF TellsFormat, AgreesWith, HasFormat, HasTemplate
<1>2. FormatsAgree'
  BY <1>1 DEF FormatsAgree, AllVolumes
<1>3. ASSUME NEW id \in Ids, NEW f \in Firmware(id)', f.template # "",
             f.place \in DOMAIN files', files'[f.place].data # "half"
      PROVE  Problem(system', files', f) # "" <=> f.place \in harmed'
  <2>1. PICK i \in FlashIn(id, args[id]) : f = Entry(system, files, id, args[id], i)'
    BY DEF Firmware, FirmwareList
  <2>2. f = Entry(system', files', id, args[id], i)
    BY <2>1, EntryThen
  <2>3. HasTemplate(f) /\ ~HalfWritten(files'[f.place])
    BY <1>3 DEF HasTemplate, HalfWritten
  <2>4. Tells(system', files', harmed', id, args[id], i)
    OBVIOUS
  <2>5. Fits(files'[f.place], f.format, f.role, system'[f.template]) <=> f.place \notin harmed'
    BY <1>3, <2>2, <2>3, <2>4 DEF Tells
  <2>6. Problem(system', files', f) = "" <=>
            Fits(files'[f.place], f.format, f.role, system'[f.template])
    BY <1>3, ProblemIs
  <2> QED BY <2>5, <2>6
<1> QED BY <1>2, <1>3 DEF DamageIsTold

(* What changes files and nothing else.                                    *)
LEMMA FilesTold ==
    ASSUME WholeInv, DamageIsTold, Regular', UNCHANGED <<host, system, args>>,
           harmed' = StillHarmed,
           \A x \in Ids : \A i \in FlashIn(x, args[x]) :
               Becomes(system, files, files', x, args[x], i)
    PROVE  DamageIsTold'
<1>1. PICK e : e = files'
  OBVIOUS
<1>2. PICK k : k = harmed' /\ k = {q \in harmed : q \in DOMAIN e /\ e[q] = files[q]}
  BY <1>1 DEF StillHarmed
<1>3. SystemFits(system) /\ AllVolumes(system) /\ harmed \subseteq DOMAIN files
  BY DEF WholeInv, DamageIsTold, FormatsAgree, AllVolumes, Regular
<1>4. ASSUME NEW x \in Ids, NEW i \in FlashIn(x, args[x])
      PROVE  AgreesWith(system, e, x, args[x], i) /\ Tells(system, e, k, x, args[x], i)
  <2>1. /\ AgreesWith(system, files, x, args[x], i)
        /\ Tells(system, files, harmed, x, args[x], i)
    BY ToldNow
  <2>2. Becomes(system, files, e, x, args[x], i)
    BY <1>1
  <2>3. AgreesWith(system, e, x, args[x], i)
    BY <2>1, AgreesStill
  <2>4. Tells(system, e, k, x, args[x], i)
    BY <1>2, <1>3, <2>1, <2>2, BecomesTold
  <2> QED BY <2>3, <2>4
<1> QED BY <1>1, <1>2, <1>3, <1>4, ToldThen

LEMMA StartTold ==
    ASSUME WholeInv, DamageIsTold, Regular', NEW id \in Ids, Start(id)
    PROVE  DamageIsTold'
<1>1. UNCHANGED <<host, system, args>> /\ harmed' = StillHarmed /\ Regular
  BY DEF Start, DamageIsTold
<1>2. ASSUME NEW x \in Ids, NEW i \in FlashIn(x, args[x])
      PROVE  Becomes(system, files, files', x, args[x], i)
  <2>1. CASE Begins(id, files, Damaged(id))
    <3>1. Becomes(system, files, files, x, args[x], i)
      BY DEF Becomes
    <3>2. files' = Remade(id, files)
      BY <2>1 DEF Begins
    <3> QED BY <1>1, <3>1, <3>2, RemadeBecomes
  <2>2. ASSUME HasRoom(Damaged(id)), NEW fails, NEW done,
               done = Replace(system, files, Damaged(id), fails),
               (done.ok /\ Begins(id, done.files, {})) \/ files' = done.files
        PROVE  Becomes(system, files, files', x, args[x], i)
    <3>1. /\ Damaged(id) \in SUBSET Firmware(id)
          /\ \A f \in Damaged(id) : HasTemplate(f) /\ f.place \in DOMAIN files
      BY DEF Damaged, HasTemplate
    <3>2. IsFiniteSet(Damaged(id)) /\ AllReplaceable(system, files, Damaged(id))
      BY <1>1, <2>2, <3>1, DamagedReplaceable
    <3>3. Replaced(system, files, Damaged(id), done)
      BY <2>2, <3>2, ReplaceDoes
    <3>4. /\ Becomes(system, files, done.files, x, args[x], i)
          /\ FlashPlace(x, args[x], i) \in DOMAIN done.files
                 => FlashPlace(x, args[x], i) \in DOMAIN files
          /\ done.ok /\ FlashPlace(x, args[x], i) \in DOMAIN files
                 => FlashPlace(x, args[x], i) \in DOMAIN done.files
      BY <1>1, <3>1, <3>3, ReplacedBecomes
    <3>5. CASE files' = done.files
      BY <3>4, <3>5
    <3>6. CASE done.ok /\ Begins(id, done.files, {})
      <4>1. files' = Remade(id, done.files)
        BY <3>6 DEF Begins
      <4>2. FlashPlace(x, args[x], i) \in DOMAIN files
                <=> FlashPlace(x, args[x], i) \in DOMAIN done.files
        BY <3>4, <3>6
      <4> QED BY <1>1, <3>4, <4>1, <4>2, RemadeBecomes
    <3> QED BY <2>2, <3>5, <3>6
  <2> QED BY <2>1, <2>2 DEF Start
<1> QED BY <1>1, <1>2, FilesTold

LEMMA ResetTold ==
    ASSUME WholeInv, DamageIsTold, Regular', NEW id \in Ids, Reset(id)
    PROVE  DamageIsTold'
<1>1. PICK f \in Firmware(id), fails \in Failing :
          /\ HasTemplate(f) /\ HasRoom({f}) /\ UNCHANGED <<host, system, args>>
          /\ files' = ResetFile(system, files, f, fails).files
          /\ harmed' = StillHarmed
  BY DEF Reset, HasTemplate
<1>2. Regular /\ OwnFlash(id)
  BY DEF DamageIsTold, Regular
<1>3. ASSUME NEW x \in Ids, NEW i \in FlashIn(x, args[x])
      PROVE  Becomes(system, files, files', x, args[x], i)
  <2>1. CASE f.place \in DOMAIN files
    <3>1. {f} \in SUBSET Firmware(id) /\ \A g \in {f} : HasTemplate(g) /\ g.place \in DOMAIN files
      BY <1>1, <2>1
    <3>2. AllReplaceable(system, files, {f})
      BY <1>1, <1>2, <3>1, DamagedReplaceable
    <3>3. PICK done : Replaced(system, files, {f}, done) /\ done.files = files'
      BY <1>1, <3>2, OneReplaced
    <3>4. Becomes(system, files, done.files, x, args[x], i)
      BY <1>2, <3>1, <3>3, ReplacedBecomes
    <3> QED BY <3>3, <3>4
  <2>2. CASE f.place \notin DOMAIN files
    <3> DEFINE p == FlashPlace(x, args[x], i)
               g == Entry(system, files, x, args[x], i)
    <3>1. files' = files \/ files' = Put(files, f.place, system[f.template])
      BY <1>1, <2>2 DEF ResetFile, CopyTemplate, Result
    <3>2. CASE p \in DOMAIN files' /\ p \notin DOMAIN files
      <4>1. p = f.place /\ files'[p] = system[f.template]
        BY <3>1, <3>2 DEF Put
      <4>2. p \in Folders[x] /\ f.place \in Folders[id]
        BY <1>2, ListFacts DEF Regular, OwnFlash, Firmware
      <4>3. x = id
        BY <4>1, <4>2, Apart
      <4>4. g \in Firmware(id) /\ g.place = p
        BY <4>3, EntryIs, ListIs DEF Firmware
      <4>5. f = g
        BY <1>2, <4>1, <4>4, ListFacts DEF Firmware
      <4> QED BY <1>1, <4>1, <4>5 DEF Becomes
    <3>3. CASE p \in DOMAIN files
      <4>1. files'[p] = files[p]
        BY <2>2, <3>1, <3>3 DEF Put
      <4> QED BY <3>3, <4>1 DEF Becomes
    <3>4. CASE p \notin DOMAIN files'
      BY <3>4 DEF Becomes
    <3> QED BY <3>2, <3>3, <3>4
  <2> QED BY <2>1, <2>2
<1> QED BY <1>1, <1>3, FilesTold

(* What the guest writes.                                                  *)
LEMMA WrittenTold ==
    ASSUME NEW sys, SystemFits(sys), NEW d, NEW e, NEW h, NEW id, NEW a, NEW i,
           Tells(sys, d, h, id, a, i), DOMAIN e = DOMAIN d,
           FlashPlace(id, a, i) \in DOMAIN d,
           FlashPlace(id, a, i) \notin h, ~HalfWritten(d[FlashPlace(id, a, i)]),
           Written1(d[FlashPlace(id, a, i)], e[FlashPlace(id, a, i)])
    PROVE  Tells(sys, e, h, id, a, i)
<1> DEFINE p == FlashPlace(id, a, i)
           f == Entry(sys, d, id, a, i)
           g == Entry(sys, e, id, a, i)
<1>1. g = f
  BY EntryStays DEF Written1
<1>2. f.place = p
  BY EntryIs
<1>3. ASSUME HasTemplate(f)
      PROVE  Fits(e[p], f.format, f.role, sys[f.template])
  <2>1. Fits(d[p], f.format, f.role, sys[f.template])
    BY <1>2, <1>3 DEF Tells
  <2>2. f.role = "Vars" => sys[f.template].head \notin {"code", "newer code"}
    <3>1. /\ f.role = FlashFile(d, id, a, i).role
          /\ f.template = TemplateOf(sys, FlashFile(d, id, a, i), CodeName(a))
      BY EntryIs
    <3> QED BY <1>3, <3>1, VarsTemplate DEF HasTemplate
  <2> HIDE DEF p, f
  <2> QED BY <2>1, <2>2, WrittenFits DEF p
<1> HIDE DEF f, g
<1> QED BY <1>1, <1>2, <1>3 DEF Tells, f, g

LEMMA UseTold ==
    ASSUME WholeInv, DamageIsTold, Regular', NEW id \in Ids, Use(id)
    PROVE  DamageIsTold'
<1>1. UNCHANGED <<host, system, args, harmed>> /\ Regular
  BY DEF Use, DamageIsTold
<1>2. PICK e : e = files'
  OBVIOUS
<1>3. /\ DOMAIN e = DOMAIN files /\ \A p \in DOMAIN files : Written1(files[p], e[p])
      /\ \A p \in DOMAIN files \ WholeFiles(id) : e[p] = files[p]
  BY <1>1, <1>2, UseWrites
<1>4. SystemFits(system) /\ AllVolumes(system)
  BY DEF WholeInv, DamageIsTold, FormatsAgree, AllVolumes
<1>5. ASSUME NEW x \in Ids, NEW i \in FlashIn(x, args[x])
      PROVE  AgreesWith(system, e, x, args[x], i) /\ Tells(system, e, harmed, x, args[x], i)
  <2> DEFINE p == FlashPlace(x, args[x], i)
  <2>1. /\ AgreesWith(system, files, x, args[x], i)
        /\ Tells(system, files, harmed, x, args[x], i)
    BY ToldNow
  <2>2. AgreesWith(system, e, x, args[x], i)
    BY <2>1, AgreesStill
  <2>3. CASE p \in WholeFiles(id)
    <3>1. p \in DOMAIN files /\ p \notin harmed /\ ~HalfWritten(files[p])
      BY <2>3 DEF WholeFiles, HalfWritten
    <3>2. Tells(system, e, harmed, x, args[x], i)
      BY <1>3, <1>4, <2>1, <3>1, WrittenTold
    <3> QED BY <2>2, <3>2
  <2>4. CASE p \notin WholeFiles(id)
    <3>1. p \in DOMAIN e => p \in DOMAIN files /\ e[p] = files[p] /\ (p \in harmed <=> p \in harmed)
      BY <1>3, <2>4
    <3>2. Tells(system, e, harmed, x, args[x], i)
      BY <2>1, <3>1, StaysTold
    <3> QED BY <2>2, <3>2
  <2> QED BY <2>3, <2>4
<1> QED BY <1>1, <1>2, <1>4, <1>5, ToldThen

(* What lost its content fits no whole template.                           *)
LEMMA RuinedUnfit ==
    ASSUME NEW c, IsContent(c), NEW r \in Ruined(c), NEW format, IsFormat(format),
           NEW role, HasRole([role |-> role]), NEW model, IsContent(model), IsVolume(model)
    PROVE  ~Fits(r, format, role, model)
<1>1. Inspect(model, "").problem = "" /\ model.size \notin {"none", "less"}
      /\ Volume(model.head) # ""
  BY WholeModel DEF IsVolume
<1>2. CASE r.size = "none"
  BY <1>2 DEF Fits
<1>3. CASE r.size = "less"
  BY <1>1, <1>3 DEF Fits
<1>4. CASE r.head = "garbage"
  <2>1. ~HeadFits(role, r.head, model.head)
    BY <1>1, <1>4 DEF HeadFits, Volume
  <2> QED BY <1>1, <2>1 DEF Fits
<1>5. CASE r.fmt = "qcow2" /\ r.tables = "bad"
  <2>1. format = "raw" \/ format = "qcow2"
    BY DEF IsFormat
  <2>2. Inspect(r, format).problem # ""
    BY <1>5, <2>1 DEF Inspect, ReadQcow2, Bad, Image
  <2> QED BY <2>2 DEF Fits
<1>6. r.size = "none" \/ r.size = "less" \/ r.head = "garbage" \/ (r.fmt = "qcow2" /\ r.tables = "bad")
  <2>1. c.fmt = "raw" \/ c.fmt = "qcow2"
    BY DEF IsContent, IsFormat
  <2>2. CASE r = [c EXCEPT !.size = "none"]
    BY <2>2 DEF IsContent
  <2>3. CASE r = [c EXCEPT !.head = "garbage"]
    BY <2>3 DEF IsContent
  <2>4. CASE r = [c EXCEPT !.size = "less"]
    BY <2>4 DEF IsContent
  <2>5. CASE r = [c EXCEPT !.tables = "bad"] /\ c.fmt = "qcow2"
    BY <2>5 DEF IsContent
  <2>6. CASE r = [c EXCEPT !.fmt = "raw", !.head = "garbage"]
    BY <2>6 DEF IsContent
  <2> QED BY <2>1, <2>2, <2>3, <2>4, <2>5, <2>6 DEF Ruined
<1> QED BY <1>2, <1>3, <1>4, <1>5, <1>6

LEMMA RuinedTold ==
    ASSUME NEW sys, SystemFits(sys), AllVolumes(sys), NEW d, NEW e, NEW k, NEW id, NEW a, NEW i,
           AgreesWith(sys, d, id, a, i), FlashPlace(id, a, i) \in DOMAIN e,
           IsContent(d[FlashPlace(id, a, i)]),
           e[FlashPlace(id, a, i)] \in Ruined(d[FlashPlace(id, a, i)]),
           FlashPlace(id, a, i) \in k
    PROVE  Tells(sys, e, k, id, a, i)
<1> DEFINE p == FlashPlace(id, a, i)
           g == Entry(sys, e, id, a, i)
<1>1. g.place = p /\ g.format = FormatOf(e, a, i, p) /\ HasRole([role |-> g.role])
  BY EntryIs DEF HasRole
<1>2. IsContent(e[p])
  BY RuinedContent
<1>3. IsFormat(g.format)
  <2>1. CASE HasFormat(a, i)
    BY <1>1, <2>1, FormatIs DEF AgreesWith
  <2>2. CASE ~HasFormat(a, i)
    <3>1. g.format = e[p].fmt
      BY <1>1, <2>2, FormatIs
    <3> QED BY <1>2, <3>1 DEF IsContent
  <2> QED BY <2>1, <2>2
<1>4. ASSUME HasTemplate(g)
      PROVE  ~Fits(e[p], g.format, g.role, sys[g.template])
  <2>1. IsContent(sys[g.template]) /\ IsVolume(sys[g.template])
    BY <1>4, EntryTemplate DEF SystemFits, AllVolumes
  <2> HIDE DEF g
  <2> QED BY <1>1, <1>3, <2>1, RuinedUnfit
<1> HIDE DEF g
<1> QED BY <1>1, <1>4 DEF Tells, g

(* A variable store that was erased fits.                                  *)
Erased(c, r) ==
    r.fmt = c.fmt /\ r.tables = c.tables /\ r.size = c.size /\ r.data = c.data /\ r.head = "blank"

LEMMA BlankTold ==
    ASSUME NEW sys, NEW d, NEW e, NEW h, NEW id, NEW a, NEW i,
           Tells(sys, d, h, id, a, i), Entry(sys, d, id, a, i).role = "Vars",
           FlashPlace(id, a, i) \in DOMAIN d, FlashPlace(id, a, i) \in DOMAIN e,
           FlashPlace(id, a, i) \notin h,
           Erased(d[FlashPlace(id, a, i)], e[FlashPlace(id, a, i)])
    PROVE  Tells(sys, e, h, id, a, i)
<1> DEFINE p == FlashPlace(id, a, i)
           f == Entry(sys, d, id, a, i)
           c == d[p]
<1>1. /\ e[p].fmt = c.fmt /\ e[p].tables = c.tables /\ e[p].size = c.size
      /\ e[p].data = c.data /\ e[p].head = "blank"
  BY DEF Erased
<1>2. Entry(sys, e, id, a, i) = f /\ f.place = p
  BY <1>1, EntryStays, EntryIs
<1>3. ASSUME HasTemplate(f), ~HalfWritten(e[p])
      PROVE  Fits(e[p], f.format, f.role, sys[f.template])
  <2>1. Fits(c, f.format, f.role, sys[f.template])
    BY <1>1, <1>2, <1>3 DEF Tells, HalfWritten
  <2>2. Inspect(e[p], f.format).problem = Inspect(c, f.format).problem
    BY <1>1, InspectStays
  <2>3. f.role = "Vars"
    OBVIOUS
  <2> HIDE DEF p, f, c
  <2> QED BY <1>1, <2>1, <2>2, <2>3 DEF Fits, HeadFits
<1> HIDE DEF f
<1> QED BY <1>2, <1>3 DEF Tells, f

LEMMA HarmTold ==
    ASSUME WholeInv, DamageIsTold, Regular', NEW id \in Ids, Harm(id)
    PROVE  DamageIsTold'
<1>1. UNCHANGED <<host, system, args>> /\ Regular
  BY DEF Harm, DamageIsTold
<1>2. PICK f \in Firmware(id) :
          /\ f.place \in DOMAIN files \ harmed
          /\ \/ \E c \in Ruined(files[f.place]) :
                  files' = [files EXCEPT ![f.place] = c] /\ harmed' = harmed \cup {f.place}
             \/ /\ f.role = "Vars" /\ harmed' = harmed
                /\ files' = [files EXCEPT ![f.place].head = "blank"]
  BY DEF Harm
<1>3. PICK e, k : e = files' /\ k = harmed'
  OBVIOUS
<1>4. /\ DOMAIN e = DOMAIN files /\ \A q \in DOMAIN files \ {f.place} : e[q] = files[q]
      /\ \A q : q # f.place => (q \in k <=> q \in harmed)
  BY <1>2, <1>3
<1>5. \/ e[f.place] \in Ruined(files[f.place]) /\ f.place \in k
      \/ /\ f.role = "Vars" /\ k = harmed
         /\ e[f.place] = [files[f.place] EXCEPT !.head = "blank"]
  BY <1>2, <1>3
<1>6. SystemFits(system) /\ AllVolumes(system)
  BY DEF WholeInv, DamageIsTold, FormatsAgree, AllVolumes
<1>7. ASSUME NEW x \in Ids, NEW i \in FlashIn(x, args[x])
      PROVE  AgreesWith(system, e, x, args[x], i) /\ Tells(system, e, k, x, args[x], i)
  <2> DEFINE p == FlashPlace(x, args[x], i)
             g == Entry(system, files, x, args[x], i)
  <2>1. /\ AgreesWith(system, files, x, args[x], i)
        /\ Tells(system, files, harmed, x, args[x], i)
    BY ToldNow
  <2>2. AgreesWith(system, e, x, args[x], i)
    BY <2>1, AgreesStill
  <2>3. CASE p # f.place
    <3>1. p \in DOMAIN e => p \in DOMAIN files /\ e[p] = files[p] /\ (p \in k <=> p \in harmed)
      BY <1>4, <2>3
    <3> QED BY <2>1, <2>2, <3>1, StaysTold
  <2>4. CASE p = f.place
    <3>1. OwnFlash(id) /\ OwnFlash(x)
      BY <1>1 DEF Regular
    <3>2. p \in Folders[x] /\ f.place \in Folders[id]
      BY <3>1, ListFacts DEF OwnFlash, Firmware
    <3>3. x = id
      BY <2>4, <3>2, Apart
    <3>4. g \in Firmware(id) /\ g.place = p
      BY <3>3, EntryIs, ListIs DEF Firmware
    <3>5. f = g
      BY <2>4, <3>1, <3>4, ListFacts DEF Firmware
    <3>6. p \in DOMAIN files /\ p \in DOMAIN e /\ p \notin harmed /\ IsContent(files[p])
      BY <1>1, <1>2, <1>4, <2>4 DEF Regular
    <3>7. CASE e[p] \in Ruined(files[p]) /\ p \in k
      BY <1>6, <2>1, <2>2, <3>6, <3>7, RuinedTold
    <3>8. CASE g.role = "Vars" /\ k = harmed /\ e[p] = [files[p] EXCEPT !.head = "blank"]
      <4>1. Erased(files[p], e[p])
        <5> DEFINE c == files[p]
        <5>1. e[p] = [c EXCEPT !.head = "blank"] /\ IsContent(c)
          BY <3>6, <3>8
        <5> HIDE DEF c
        <5> QED BY <5>1 DEF IsContent, Erased, c
      <4>2. Tells(system, e, harmed, x, args[x], i)
        BY <2>1, <3>6, <3>8, <4>1, BlankTold
      <4> QED BY <2>2, <3>8, <4>2
    <3> QED BY <1>5, <2>4, <3>5, <3>7, <3>8
  <2> QED BY <2>3, <2>4
<1> QED BY <1>1, <1>3, <1>6, <1>7, ToldThen

LEMMA RemoveTold ==
    ASSUME WholeInv, DamageIsTold, Regular', NEW id \in Ids, RemoveFile(id)
    PROVE  DamageIsTold'
<1>1. PICK p \in DOMAIN files :
          /\ files' = Without(files, p) /\ harmed' = harmed \ {p}
          /\ UNCHANGED <<host, system, args>>
  BY DEF RemoveFile
<1>2. harmed' = StillHarmed
  BY <1>1 DEF StillHarmed, Without, DamageIsTold, Regular
<1>3. ASSUME NEW x \in Ids, NEW i \in FlashIn(x, args[x])
      PROVE  Becomes(system, files, files', x, args[x], i)
  BY <1>1 DEF Becomes, Without
<1> QED BY <1>1, <1>2, <1>3, FilesTold

(* A newer release of the templates.                                       *)
LEMMA NewerStillTold ==
    ASSUME NEW c, NEW format, NEW role, NEW model, NEW newer, Newer(model, newer),
           role = "Vars" => model.head \notin {"code", "newer code"}
    PROVE  Fits(c, format, role, newer) <=> Fits(c, format, role, model)
<1>1. Inspect(newer, "").problem = Inspect(model, "").problem
  BY InspectStays DEF Newer
<1>2. HeadFits(role, c.head, model.head) <=> HeadFits(role, c.head, newer.head)
  <2>1. CASE newer.head = model.head
    BY <2>1
  <2>2. CASE model.head = "code" /\ newer.head = "newer code"
    BY <2>2 DEF HeadFits, Volume
  <2> QED BY <2>1, <2>2 DEF Newer
<1> QED BY <1>1, <1>2 DEF Fits, Newer

LEMMA UpdateTold ==
    ASSUME WholeInv, DamageIsTold, Regular', Update
    PROVE  DamageIsTold'
<1>1. UNCHANGED <<host, args, files, harmed>>
  BY DEF Update
<1>2. PICK newer : newer = system'
  OBVIOUS
<1>3. DOMAIN newer = DOMAIN system /\ \A name \in DOMAIN system : Newer(system[name], newer[name])
  BY <1>2, UpdateIs
<1>4. SystemFits(system) /\ AllVolumes(system)
  BY DEF WholeInv, DamageIsTold, FormatsAgree, AllVolumes
<1>5. AllVolumes(newer)
  <2> SUFFICES ASSUME NEW name \in DOMAIN system
               PROVE  IsVolume(newer[name])
    BY <1>3 DEF AllVolumes
  <2>1. IsVolume(system[name]) /\ Newer(system[name], newer[name])
    BY <1>3, <1>4 DEF AllVolumes
  <2>2. Volume(newer[name].head) # ""
    BY <2>1 DEF Newer, IsVolume, Volume
  <2> QED BY <2>1, <2>2 DEF Newer, IsVolume
<1>6. ASSUME NEW x \in Ids, NEW i \in FlashIn(x, args[x])
      PROVE  AgreesWith(newer, files, x, args[x], i) /\ Tells(newer, files, harmed, x, args[x], i)
  <2> DEFINE f == Entry(system, files, x, args[x], i)
  <2>1. /\ AgreesWith(system, files, x, args[x], i)
        /\ Tells(system, files, harmed, x, args[x], i)
    BY ToldNow
  <2>2. Entry(newer, files, x, args[x], i) = f
    BY <1>3 DEF Entry, WithTemplate, TemplateOf
  <2>3. HasTemplate(f) => f.template \in DOMAIN system
    BY EntryTemplate
  <2>4. ASSUME HasTemplate(f)
        PROVE  newer[f.template].fmt = system[f.template].fmt
    BY <1>3, <2>3, <2>4 DEF Newer
  <2>5. AgreesWith(newer, files, x, args[x], i)
    BY <2>1, <2>2, <2>4 DEF AgreesWith
  <2>6. ASSUME HasTemplate(f)
        PROVE  Fits(files[f.place], f.format, f.role, newer[f.template])
                   <=> Fits(files[f.place], f.format, f.role, system[f.template])
    <3>1. /\ f.role = FlashFile(files, x, args[x], i).role
          /\ f.template = TemplateOf(system, FlashFile(files, x, args[x], i), CodeName(args[x]))
      BY EntryIs
    <3>2. f.role = "Vars" => system[f.template].head \notin {"code", "newer code"}
      BY <1>4, <2>6, <3>1, VarsTemplate DEF HasTemplate
    <3>3. Newer(system[f.template], newer[f.template])
      BY <1>3, <2>3, <2>6
    <3> HIDE DEF f
    <3> QED BY <3>2, <3>3, NewerStillTold
  <2>7. Tells(newer, files, harmed, x, args[x], i)
    BY <2>1, <2>2, <2>6 DEF Tells
  <2> QED BY <2>5, <2>7
<1> QED BY <1>1, <1>2, <1>5, <1>6, ToldThen

(* The files and the arguments stay.                                       *)
LEMMA RestTold ==
    ASSUME WholeInv, DamageIsTold, Regular', UNCHANGED <<host, system, args, files, harmed>>
    PROVE  DamageIsTold'
<1>1. harmed' = StillHarmed
  BY DEF StillHarmed, DamageIsTold, Regular
<1>2. ASSUME NEW x \in Ids, NEW i \in FlashIn(x, args[x])
      PROVE  Becomes(system, files, files', x, args[x], i)
  BY DEF Becomes
<1> QED BY <1>1, <1>2, FilesTold

LEMMA NextTells ==
    ASSUME WholeInv, DamageIsTold, [Next]_vars, Makes => DamageIsTold'
    PROVE  DamageIsTold'
<1>1. Regular'
  <2>1. Makes => Regular'
    BY DEF DamageIsTold
  <2> QED BY <2>1, NextKeepsRegular DEF DamageIsTold
<1>2. CASE Makes
  BY <1>2
<1>3. ASSUME NEW id \in Ids, Start(id) \/ Reset(id) \/ Use(id) \/ Harm(id) \/ RemoveFile(id)
      PROVE  DamageIsTold'
  BY <1>1, <1>3, StartTold, ResetTold, UseTold, HarmTold, RemoveTold
<1>4. CASE Update
  BY <1>1, <1>4, UpdateTold
<1>5. CASE (\E id \in Ids : ShutDown(id)) \/ UNCHANGED vars
  <2>1. UNCHANGED <<host, system, args, files, harmed>>
    BY <1>5 DEF ShutDown, vars
  <2> QED BY <1>1, <2>1, RestTold
<1> QED BY <1>2, <1>3, <1>4, <1>5 DEF Next, Makes

-----------------------------------------------------------------------------
(* The files of the arguments: those of each line, one after the other.   *)

(* A function that is told step by step is there.                          *)
Follows(f, n, base, step) ==
    f = [i \in 0 .. n |-> IF i = 0 THEN base ELSE step[i][f[i - 1]]]

LEMMA FollowsThere ==
    ASSUME NEW Y, NEW base \in Y, NEW n \in Nat, NEW step \in [1 .. n -> [Y -> Y]]
    PROVE  \E f \in [0 .. n -> Y] : Follows(f, n, base, step)
<1> DEFINE Good(m) == \E f \in [0 .. m -> Y] : Follows(f, m, base, step)
           Lacking == {m \in 0 .. n : ~Good(m)}
<1> SUFFICES ASSUME Lacking # {} PROVE FALSE
  OBVIOUS
<1>1. PICK m \in Lacking : \A k \in Lacking : m <= k
  <2>1. Lacking \in SUBSET Nat
    OBVIOUS
  <2> QED BY <2>1, MinIs
<1>2. m # 0
  <2> DEFINE f == [i \in 0 .. 0 |-> base]
  <2>1. f \in [0 .. 0 -> Y] /\ Follows(f, 0, base, step)
    BY DEF Follows
  <2> QED BY <1>1, <2>1
<1>3. Good(m - 1) /\ m \in 1 .. n
  BY <1>1, <1>2
<1>4. PICK f \in [0 .. m - 1 -> Y] : Follows(f, m - 1, base, step)
  BY <1>3
<1> HIDE DEF Good
<1> DEFINE h == [i \in 0 .. m |-> IF i = m THEN step[m][f[m - 1]] ELSE f[i]]
<1>5. step[m][f[m - 1]] \in Y
  <2>1. m - 1 \in 0 .. m - 1
    BY <1>3
  <2> QED BY <1>3, <1>4, <2>1
<1>6. h \in [0 .. m -> Y]
  BY <1>3, <1>4, <1>5
<1>7. \A i \in 0 .. m : h[i] = IF i = 0 THEN base ELSE step[i][h[i - 1]]
  <2>1. \A i \in 0 .. m - 1 : f[i] = IF i = 0 THEN base ELSE step[i][f[i - 1]]
    BY <1>4 DEF Follows
  <2> QED BY <1>3, <2>1
<1>8. Follows(h, m, base, step)
  BY <1>7 DEF Follows
<1> QED BY <1>1, <1>6, <1>8 DEF Good

(* FlattenSeq: what is in one of the sequences.                            *)
Holds(s, x) == \E n \in 1 .. Len(s) : s[n] = x

LEMMA ConcatHolds ==
    ASSUME NEW T, NEW s \in Seq(T), NEW t \in Seq(T), NEW x
    PROVE  s \o t \in Seq(T) /\ (Holds(s \o t, x) <=> Holds(s, x) \/ Holds(t, x))
<1>1. /\ s \o t \in Seq(T) /\ Len(s \o t) = Len(s) + Len(t)
      /\ \A i \in 1 .. Len(s) : (s \o t)[i] = s[i]
      /\ \A i \in 1 .. Len(t) : (s \o t)[Len(s) + i] = t[i]
  OBVIOUS
<1>2. \A i \in 1 .. Len(s) + Len(t) : i \in 1 .. Len(s) \/ i - Len(s) \in 1 .. Len(t)
  OBVIOUS
<1>3. ASSUME Holds(s \o t, x) PROVE Holds(s, x) \/ Holds(t, x)
  <2>1. PICK n \in 1 .. Len(s) + Len(t) : (s \o t)[n] = x
    BY <1>1, <1>3 DEF Holds
  <2>2. CASE n \in 1 .. Len(s)
    BY <1>1, <2>1, <2>2 DEF Holds
  <2>3. CASE n - Len(s) \in 1 .. Len(t)
    <3>1. (s \o t)[Len(s) + (n - Len(s))] = t[n - Len(s)]
      BY <1>1, <2>3
    <3>2. Len(s) + (n - Len(s)) = n
      OBVIOUS
    <3> QED BY <2>1, <2>3, <3>1, <3>2 DEF Holds
  <2> QED BY <1>2, <2>2, <2>3
<1>4. ASSUME Holds(s, x) PROVE Holds(s \o t, x)
  <2>1. PICK n \in 1 .. Len(s) : s[n] = x
    BY <1>4 DEF Holds
  <2>2. n \in 1 .. Len(s \o t) /\ (s \o t)[n] = x
    BY <1>1, <2>1
  <2> QED BY <2>2 DEF Holds
<1>5. ASSUME Holds(t, x) PROVE Holds(s \o t, x)
  <2>1. PICK n \in 1 .. Len(t) : t[n] = x
    BY <1>5 DEF Holds
  <2>2. Len(s) + n \in 1 .. Len(s \o t) /\ (s \o t)[Len(s) + n] = x
    BY <1>1, <2>1
  <2> QED BY <2>2 DEF Holds
<1> QED BY <1>1, <1>3, <1>4, <1>5

Flattens(f, seqs) ==
    f = [i \in 1 .. Len(seqs) |-> IF i = 1 THEN seqs[i] ELSE f[i - 1] \o seqs[i]]

LEMMA FlattenThere ==
    ASSUME NEW T, NEW seqs \in Seq(Seq(T))
    PROVE  \E f : Flattens(f, seqs)
<1> DEFINE Y == Seq(T)
           n == Len(seqs)
           step == [i \in 1 .. n |-> [y \in Y |-> IF i = 1 THEN seqs[i] ELSE y \o seqs[i]]]
<1>1. <<>> \in Y /\ n \in Nat /\ step \in [1 .. n -> [Y -> Y]]
  OBVIOUS
<1> HIDE DEF step
<1>2. PICK f \in [0 .. n -> Y] : Follows(f, n, <<>>, step)
  BY <1>1, FollowsThere
<1>3. ASSUME NEW i \in 1 .. n
      PROVE  f[i] = IF i = 1 THEN seqs[i] ELSE f[i - 1] \o seqs[i]
  <2>0. i \in 0 .. n /\ i # 0 /\ i - 1 \in 0 .. n
    OBVIOUS
  <2>1. f[i] = step[i][f[i - 1]] /\ f[i - 1] \in Y
    <3>1. f = [j \in 0 .. n |-> IF j = 0 THEN <<>> ELSE step[j][f[j - 1]]]
      BY <1>2 DEF Follows
    <3>2. f[i] = IF i = 0 THEN <<>> ELSE step[i][f[i - 1]]
      BY <2>0, <3>1, Zenon
    <3>3. f[i - 1] \in Y
      BY <1>2, <2>0
    <3> QED BY <2>0, <3>2, <3>3
  <2> QED BY <2>1 DEF step
<1> DEFINE h == [i \in 1 .. n |-> f[i]]
<1>4. h = [i \in 1 .. n |-> IF i = 1 THEN seqs[i] ELSE h[i - 1] \o seqs[i]]
  BY <1>3
<1> QED BY <1>4 DEF Flattens

LEMMA FlattenIs ==
    ASSUME NEW seqs, Len(seqs) # 0
    PROVE  FlattenSeq(seqs) = (CHOOSE f : Flattens(f, seqs))[Len(seqs)]
  BY DEF FlattenSeq, Flattens

LEMMA FlattenHolds ==
    ASSUME NEW T, NEW seqs \in Seq(Seq(T))
    PROVE  /\ FlattenSeq(seqs) \in Seq(T)
           /\ \A x : Holds(FlattenSeq(seqs), x) <=> \E i \in 1 .. Len(seqs) : Holds(seqs[i], x)
<1> DEFINE n == Len(seqs)
<1>1. CASE n = 0
  <2>1. FlattenSeq(seqs) = seqs
    BY <1>1 DEF FlattenSeq
  <2>2. seqs = <<>> /\ <<>> \in Seq(T) /\ 1 .. Len(seqs) = {}
    BY <1>1
  <2>3. FlattenSeq(seqs) \in Seq(T)
    BY <2>1, <2>2, Zenon
  <2>4. 1 .. Len(FlattenSeq(seqs)) = {}
    BY <2>1, <2>2
  <2> QED BY <2>2, <2>3, <2>4 DEF Holds
<1>2. CASE n # 0
  <2> DEFINE f == CHOOSE f : Flattens(f, seqs)
  <2>1. Flattens(f, seqs)
    BY FlattenThere
  <2> HIDE DEF f
  <2> DEFINE Right(i) ==
        /\ f[i] \in Seq(T)
        /\ \A x : Holds(f[i], x) <=> \E j \in 1 .. i : Holds(seqs[j], x)
      Wrong == {i \in 1 .. n : ~Right(i)}
  <2>2. \A i \in 1 .. n : f[i] = IF i = 1 THEN seqs[i] ELSE f[i - 1] \o seqs[i]
    BY <2>1 DEF Flattens
  <2> HIDE DEF Right
  <2>3. Wrong = {}
    <3> SUFFICES ASSUME Wrong # {} PROVE FALSE
      OBVIOUS
    <3>1. PICK m \in Wrong : \A k \in Wrong : m <= k
      <4>1. Wrong \in SUBSET Nat
        OBVIOUS
      <4> HIDE DEF Wrong
      <4> QED BY <4>1, MinIs
    <3>0. m \in 1 .. n /\ ~Right(m)
      BY <3>1
    <3>2. CASE m = 1
      <4>1. f[m] = seqs[m] /\ seqs[m] \in Seq(T)
        BY <2>2, <3>0, <3>2
      <4>2. \A j : j \in 1 .. m <=> j = m
        BY <3>2
      <4>3. \A x : Holds(f[m], x) <=> \E j \in 1 .. m : Holds(seqs[j], x)
        <5> SUFFICES ASSUME NEW x PROVE Holds(f[m], x) <=> \E j \in 1 .. m : Holds(seqs[j], x)
          OBVIOUS
        <5>1. Holds(f[m], x) <=> Holds(seqs[m], x)
          BY <4>1
        <5> HIDE DEF f
        <5> QED BY <4>2, <5>1
      <4> QED BY <3>0, <4>1, <4>3, Zenon DEF Right
    <3>3. CASE m # 1
      <4>1. m - 1 \in 1 .. n /\ m - 1 \notin Wrong
        BY <3>1, <3>3
      <4>2. /\ f[m - 1] \in Seq(T)
            /\ \A x : Holds(f[m - 1], x) <=> \E j \in 1 .. m - 1 : Holds(seqs[j], x)
        BY <4>1 DEF Right
      <4>3. f[m] = f[m - 1] \o seqs[m] /\ seqs[m] \in Seq(T)
        <5>1. f[m] = f[m - 1] \o seqs[m]
          BY <2>2, <3>0, <3>3, Zenon
        <5>2. seqs[m] \in Seq(T)
          BY <3>0
        <5> QED BY <5>1, <5>2
      <4>4. f[m] \in Seq(T) /\ \A x : Holds(f[m], x) <=> Holds(f[m - 1], x) \/ Holds(seqs[m], x)
        BY <4>2, <4>3, ConcatHolds
      <4>5. \A j : j \in 1 .. m <=> j \in 1 .. m - 1 \/ j = m
        BY <3>1
      <4>6. Right(m)
        BY <4>2, <4>4, <4>5 DEF Right
      <4> QED BY <3>1, <4>6
    <3> QED BY <3>2, <3>3
  <2>4. Right(n)
    <3>1. n \in 1 .. n
      BY <1>2
    <3> QED BY <2>3, <3>1
  <2>5. FlattenSeq(seqs) = f[n]
    BY <1>2, FlattenIs DEF f
  <2> QED BY <2>4, <2>5 DEF Right
<1> QED BY <1>1, <1>2

Words5 == {"file", "filename", "path", "mem-path", "script"}
NoFiles == {"chardev", "serial", "audiodev", "trace", "pidfile"}

(* The keys of a line that name files.                                     *)
FileKeys(l) == {key \in Words5 : NamesFile(l, key)}

KeySet(l) ==
    IF l.kind # "Option" \/ l.val = <<>> \/ l.name \in NoFiles THEN {}
    ELSE IF l.name \in FileOptions THEN {""} ELSE FileKeys(l)

LEMMA KeysAreWords == ASSUME NEW l PROVE FileKeys(l) \subseteq Words5
  BY DEF FileKeys

LEMMA OneHolds ==
    ASSUME NEW T, NEW e \in T
    PROVE  <<e>> \in Seq(T) /\ \A x : Holds(<<e>>, x) <=> x = e
<1>1. <<e>> \in Seq(T) /\ Len(<<e>>) = 1 /\ <<e>>[1] = e
  OBVIOUS
<1>2. \A n : n \in 1 .. 1 <=> n = 1
  OBVIOUS
<1> QED BY <1>1, <1>2 DEF Holds

LEMMA NoneHolds ==
    ASSUME NEW T
    PROVE  <<>> \in Seq(T) /\ \A x : ~Holds(<<>>, x)
<1>1. <<>> \in Seq(T) /\ 1 .. Len(<<>>) = {}
  OBVIOUS
<1> QED BY <1>1 DEF Holds

LEMMA FunctionIsSeq ==
    ASSUME NEW T, NEW n \in Nat, NEW f \in [1 .. n -> T]
    PROVE  f \in Seq(T) /\ Len(f) = n
  OBVIOUS

LEMMA SeqIsFunction ==
    ASSUME NEW T, NEW s \in Seq(T)
    PROVE  DOMAIN s = 1 .. Len(s) /\ Len(s) \in Nat /\ \A n \in 1 .. Len(s) : s[n] \in T
  OBVIOUS

LEMMA KeysAre ==
    ASSUME NEW l
    PROVE  /\ KeysOf(l) \in Seq(Words5 \cup {""})
           /\ \A x : Holds(KeysOf(l), x) <=> x \in KeySet(l)
<1> DEFINE T == Words5 \cup {""}
           none == l.kind # "Option" \/ l.val = <<>> \/ l.name \in NoFiles
           Key(key) == IF NamesFile(l, key) THEN <<key>> ELSE <<>>
           k2 == Key("file") \o Key("filename")
           k3 == k2 \o Key("path")
           k4 == k3 \o Key("mem-path")
           k5 == k4 \o Key("script")
<1>1. KeysOf(l) = IF none THEN <<>> ELSE IF l.name \in FileOptions THEN <<"">> ELSE k5
  BY DEF KeysOf, NoFiles
<1>2. KeySet(l) = IF none THEN {} ELSE IF l.name \in FileOptions THEN {""} ELSE FileKeys(l)
  BY DEF KeySet
<1>3. "" \in T /\ Words5 \subseteq T
  OBVIOUS
<1> HIDE DEF T, none
<1>4. /\ <<>> \in Seq(T) /\ \A x : ~Holds(<<>>, x)
      /\ <<"">> \in Seq(T) /\ \A x : Holds(<<"">>, x) <=> x = ""
  BY <1>3, NoneHolds, OneHolds
<1>5. ASSUME NEW key \in Words5
      PROVE  /\ Key(key) \in Seq(T)
             /\ \A x : Holds(Key(key), x) <=> NamesFile(l, key) /\ x = key
  <2>1. /\ <<key>> \in Seq(T)
        /\ \A x : Holds(<<key>>, x) <=> x = key
    BY <1>3, OneHolds
  <2> QED BY <1>4, <2>1
<1>6. /\ "file" \in Words5 /\ "filename" \in Words5 /\ "path" \in Words5
      /\ "mem-path" \in Words5 /\ "script" \in Words5
  BY DEF Words5
<1> HIDE DEF Key
<1>7. k2 \in Seq(T) /\ \A x : Holds(k2, x) <=> Holds(Key("file"), x) \/ Holds(Key("filename"), x)
  BY <1>5, <1>6, ConcatHolds
<1> HIDE DEF k2
<1>8. k3 \in Seq(T) /\ \A x : Holds(k3, x) <=> Holds(k2, x) \/ Holds(Key("path"), x)
  BY <1>5, <1>6, <1>7, ConcatHolds
<1> HIDE DEF k3
<1>9. k4 \in Seq(T) /\ \A x : Holds(k4, x) <=> Holds(k3, x) \/ Holds(Key("mem-path"), x)
  BY <1>5, <1>6, <1>8, ConcatHolds
<1> HIDE DEF k4
<1>10. k5 \in Seq(T) /\ \A x : Holds(k5, x) <=> Holds(k4, x) \/ Holds(Key("script"), x)
  BY <1>5, <1>6, <1>9, ConcatHolds
<1> HIDE DEF k5
<1>11. \A x : Holds(k5, x) <=> \E key \in Words5 : Holds(Key(key), x)
  BY <1>7, <1>8, <1>9, <1>10 DEF Words5
<1>12. \A x : Holds(k5, x) <=> x \in FileKeys(l)
  BY <1>5, <1>11 DEF FileKeys
<1> QED BY <1>1, <1>2, <1>4, <1>10, <1>12 DEF T

(* files(): each key of each line.                                         *)
LEMMA ListHolds ==
    ASSUME NEW S, NEW a \in Seq(S)
    PROVE  /\ FileList(a) \in Seq((1 .. Len(a)) \X (Words5 \cup {""}))
           /\ \A f : Holds(FileList(a), f) <=>
                         \E i \in 1 .. Len(a) : \E key \in KeySet(a[i]) : f = <<i, key>>
<1> DEFINE K == Words5 \cup {""}
           T == (1 .. Len(a)) \X K
           OnLine(i, keys) == [n \in DOMAIN keys |-> <<i, keys[n]>>]
           lines == [i \in DOMAIN a |-> OnLine(i, KeysOf(a[i]))]
<1>1. FileList(a) = FlattenSeq(lines)
  BY DEF FileList
<1>2. DOMAIN a = 1 .. Len(a) /\ Len(a) \in Nat
  OBVIOUS
<1>3. ASSUME NEW i \in 1 .. Len(a), NEW keys \in Seq(K)
      PROVE  /\ OnLine(i, keys) \in Seq(T)
             /\ \A f : Holds(OnLine(i, keys), f) <=> \E key : Holds(keys, key) /\ f = <<i, key>>
  <2> HIDE DEF K
  <2>1. DOMAIN keys = 1 .. Len(keys) /\ Len(keys) \in Nat
    BY SeqIsFunction
  <2>2. OnLine(i, keys) \in Seq(T) /\ Len(OnLine(i, keys)) = Len(keys)
    <3>1. OnLine(i, keys) \in [1 .. Len(keys) -> T]
      BY <2>1, SeqIsFunction
    <3> HIDE DEF T, OnLine
    <3> QED BY <2>1, <3>1, FunctionIsSeq
  <2>3. \A n \in 1 .. Len(keys) : OnLine(i, keys)[n] = <<i, keys[n]>>
    BY <2>1
  <2> HIDE DEF OnLine
  <2> QED BY <2>2, <2>3 DEF Holds
<1>4. \A i \in 1 .. Len(a) : lines[i] = OnLine(i, KeysOf(a[i])) /\ lines[i] \in Seq(T)
  BY <1>2, <1>3, KeysAre
<1>5. lines \in Seq(Seq(T)) /\ Len(lines) = Len(a)
  <2>1. lines \in [1 .. Len(a) -> Seq(T)]
    BY <1>2, <1>4
  <2> HIDE DEF lines, T
  <2> QED BY <1>2, <2>1, FunctionIsSeq
<1> HIDE DEF lines, T, OnLine
<1>6. /\ FlattenSeq(lines) \in Seq(T)
      /\ \A f : Holds(FlattenSeq(lines), f) <=> \E i \in 1 .. Len(a) : Holds(lines[i], f)
  BY <1>5, FlattenHolds
<1>7. ASSUME NEW i \in 1 .. Len(a), NEW f
      PROVE  Holds(lines[i], f) <=> \E key \in KeySet(a[i]) : f = <<i, key>>
  <2>1. Holds(lines[i], f) <=> \E key : Holds(KeysOf(a[i]), key) /\ f = <<i, key>>
    <3>1. KeysOf(a[i]) \in Seq(K)
      BY KeysAre
    <3> HIDE DEF K
    <3>2. \A g : Holds(OnLine(i, KeysOf(a[i])), g) <=>
                     \E key : Holds(KeysOf(a[i]), key) /\ g = <<i, key>>
      BY <1>3, <3>1
    <3> QED BY <1>4, <3>2
  <2> QED BY <2>1, KeysAre
<1> QED BY <1>1, <1>6, <1>7 DEF T

LEMMA FilesAre ==
    ASSUME NEW S, NEW a \in Seq(S)
    PROVE  \A f : f \in Files(a) <=>
                      \E i \in 1 .. Len(a) : \E key \in KeySet(a[i]) : f = <<i, key>>
<1>1. DOMAIN FileList(a) = 1 .. Len(FileList(a))
  BY ListHolds, SeqIsFunction
<1>2. \A f : f \in Files(a) <=> Holds(FileList(a), f)
  BY <1>1 DEF Files, ToSet, Holds
<1> SUFFICES ASSUME NEW f
             PROVE  f \in Files(a) <=> \E i \in 1 .. Len(a) : \E key \in KeySet(a[i]) : f = <<i, key>>
  OBVIOUS
<1>3. f \in Files(a) <=> Holds(FileList(a), f)
  BY <1>2
<1>4. \A g : Holds(FileList(a), g) <=>
                  \E i \in 1 .. Len(a) : \E key \in KeySet(a[i]) : g = <<i, key>>
  BY ListHolds
<1>5. Holds(FileList(a), f) <=> \E i \in 1 .. Len(a) : \E key \in KeySet(a[i]) : f = <<i, key>>
  BY <1>4, Zenon
<1> QED BY <1>3, <1>5, Zenon

-----------------------------------------------------------------------------
(* One file of a line is set.                                              *)

PathAt(l, key) == IF key = "" THEN Implied(l.val) ELSE Get(l.val, key)

PathSet(l, key, w) ==
    [l EXCEPT !.val = IF key = "" THEN <<<<"", w>>>> ELSE SetItem(l.val, key, w)]

(* What is read of a line besides its files.                               *)
Read == {"if", "media", "readonly", "read-only"} \cup Words5

(* A line that names the same files, elsewhere.                            *)
Alike(l, m) ==
    /\ m.kind = l.kind /\ m.name = l.name
    /\ KeySet(m) = KeySet(l)
    /\ l.name \notin FileOptions => \A k \in Read \ KeySet(l) : Get(m.val, k) = Get(l.val, k)

LEMMA AlikeChain ==
    ASSUME NEW l, NEW m, NEW n, Alike(l, m), Alike(m, n)
    PROVE  Alike(l, n)
  BY DEF Alike

(* A word that names a file.                                               *)
NamesIt(w) == w \notin {"", "no", Bare}

HasKeys(W) == "" \in W /\ Words5 \subseteq W

IsGiven(v) == v # <<>>

(* One key is set, the others are not.                                     *)
IsItemSet(v, key, w, new) ==
    IsGiven(new) /\ Get(new, key) = w /\ \A k : k # key => Get(new, k) = Get(v, k)

LEMMA ItemSetIs ==
    ASSUME NEW W, NEW v \in Seq(W \X W), NEW key \in W, NEW w \in W, NamesIt(w)
    PROVE  SetItem(v, key, w) \in Seq(W \X W) /\ IsItemSet(v, key, w, SetItem(v, key, w))
<1>1. w \in W \ {Bare}
  BY DEF NamesIt
<1>2. PICK new \in Seq(W \X W), x \in Nat : IsSet(v, key, w, new, x)
  BY SetIs
<1>3. SetItem(v, key, w) = new /\ x \in 1 .. Len(new)
  BY <1>2 DEF IsSet, SetAt
<1>4. IsGiven(new)
  BY <1>3, NoneHolds DEF Holds, IsGiven
<1>5. \A fallback : GetOr(SetItem(v, key, w), key, fallback) = w
  BY <1>1, ItemReadsBack
<1>6. \A k, fallback : k # key => GetOr(SetItem(v, key, w), k, fallback) = GetOr(v, k, fallback)
  BY OtherItemsStay
<1>7. Get(SetItem(v, key, w), key) = w
  BY <1>5, Zenon DEF Get
<1>8. \A k : k # key => Get(SetItem(v, key, w), k) = Get(v, k)
  BY <1>6, Zenon DEF Get
<1> QED BY <1>3, <1>4, <1>7, <1>8 DEF IsItemSet

LEMMA WholeSetIs ==
    ASSUME NEW W, HasKeys(W), NEW w \in W
    PROVE  <<<<"", w>>>> \in Seq(W \X W) /\ IsGiven(<<<<"", w>>>>) /\ Implied(<<<<"", w>>>>) = w
<1>1. PICK none \in W : none = ""
  BY DEF HasKeys
<1>2. PICK e \in W \X W : e = <<none, w>> /\ e[1] = none /\ e[2] = w
  BY Pairs
<1>3. <<e>> \in Seq(W \X W) /\ Holds(<<e>>, e)
  BY OneHolds
<1>4. <<e>> # <<>>
  BY <1>3, NoneHolds
<1>5. <<e>>[1][1] = none /\ <<e>>[1][2] = w
  BY <1>2
<1>6. Implied(<<e>>) = w
  BY <1>1, <1>4, <1>5, Zenon DEF Implied
<1>7. <<<<"", w>>>> = <<e>>
  BY <1>1, <1>2, Zenon
<1> QED BY <1>3, <1>4, <1>6, <1>7, Zenon DEF IsGiven

(* One file of a line is elsewhere.                                        *)
IsPathSet(l, key, w, m) ==
    /\ Alike(l, m) /\ PathAt(m, key) = w
    /\ \A k \in KeySet(l) \ {key} : PathAt(m, k) = PathAt(l, k)

LEMMA PathSetIs ==
    ASSUME NEW W, NEW N, HasKeys(W),
           NEW K, NEW l \in Line(K, N, Seq(W \X W)), NEW key \in KeySet(l),
           NEW w \in W, NamesIt(w)
    PROVE  IsPathSet(l, key, w, PathSet(l, key, w))
<1> DEFINE whole == key = ""
           v == IF whole THEN <<<<"", w>>>> ELSE SetItem(l.val, key, w)
<1>1. l.val \in Seq(W \X W) /\ l.val # <<>> /\ l.kind = "Option" /\ l.name \notin NoFiles
  BY DEF Line, KeySet
<1>2. whole <=> l.name \in FileOptions
  BY <1>1, KeysAreWords DEF KeySet, Words5
<1>3. whole => KeySet(l) = {""}
  BY <1>1, <1>2 DEF KeySet
<1>4. ~whole => key \in FileKeys(l) /\ key \in Words5 /\ KeySet(l) = FileKeys(l)
  BY <1>1, <1>2, KeysAreWords DEF KeySet
<1> HIDE DEF whole
<1>a. ~whole => key \in W
  BY <1>4 DEF HasKeys
<1>b. ASSUME ~whole
      PROVE  /\ v \in Seq(W \X W) /\ IsGiven(v) /\ Get(v, key) = w
             /\ \A k : k # key => Get(v, k) = Get(l.val, k)
  <2>0. PICK u \in Seq(W \X W) : u = l.val
    BY <1>1
  <2>a. PICK k0 \in W : k0 = key
    BY <1>a, <1>b
  <2>1. v = SetItem(u, k0, w)
    BY <1>b, <2>0, <2>a
  <2>2. SetItem(u, k0, w) \in Seq(W \X W) /\ IsItemSet(u, k0, w, SetItem(u, k0, w))
    BY ItemSetIs
  <2> QED BY <2>0, <2>a, <2>1, <2>2, Zenon DEF IsItemSet
<1>c. ASSUME whole
      PROVE  v \in Seq(W \X W) /\ IsGiven(v) /\ Implied(v) = w
  <2>1. v = <<<<"", w>>>>
    BY <1>c
  <2>2. /\ <<<<"", w>>>> \in Seq(W \X W) /\ IsGiven(<<<<"", w>>>>)
        /\ Implied(<<<<"", w>>>>) = w
    BY WholeSetIs
  <2> QED BY <2>1, <2>2, Zenon
<1>5. v \in Seq(W \X W) /\ IsGiven(v)
  BY <1>b, <1>c
<1> HIDE DEF v
<1>6. PICK m \in Line(K, N, Seq(W \X W)) : /\ m = [l EXCEPT !.val = v] /\ m.val = v
                                              /\ m.kind = l.kind /\ m.name = l.name
  <2> DEFINE V == Seq(W \X W)
  <2>1. l \in Line(K, N, V) /\ v \in V
    BY <1>5
  <2> HIDE DEF V
  <2>2. \E m \in Line(K, N, V) : /\ m = [l EXCEPT !.val = v] /\ m.val = v
                                    /\ m.kind = l.kind /\ m.name = l.name
    BY <2>1, LineChanged
  <2> QED BY <2>2 DEF V
<1>7. m = PathSet(l, key, w)
  BY <1>6 DEF PathSet, v, whole
<1>8. CASE whole
  <2>1. KeySet(m) = {""}
    BY <1>1, <1>2, <1>5, <1>6, <1>8 DEF KeySet, IsGiven
  <2>3. PathAt(m, key) = w
    BY <1>6, <1>8, <1>c DEF PathAt, whole
  <2>4. KeySet(l) \ {key} = {}
    BY <1>3, <1>8 DEF whole
  <2> QED BY <1>2, <1>3, <1>6, <1>7, <1>8, <2>1, <2>3, <2>4 DEF Alike, IsPathSet
<1>9. CASE ~whole
  <2>1. /\ Get(v, key) = w
        /\ \A k : k # key => Get(v, k) = Get(l.val, k)
    BY <1>9, <1>b
  <2>2. FileKeys(m) = FileKeys(l)
    BY <1>4, <1>6, <1>9, <2>1 DEF FileKeys, NamesFile, NamesIt
  <2>3. KeySet(m) = KeySet(l)
    BY <1>1, <1>2, <1>4, <1>5, <1>6, <1>9, <2>2 DEF KeySet, IsGiven
  <2>4. PathAt(m, key) = w
    BY <1>6, <1>9, <2>1 DEF PathAt, whole
  <2>5. \A k \in KeySet(l) \ {key} : PathAt(m, k) = PathAt(l, k)
    <3>1. "" \notin KeySet(l)
      <4>1. KeySet(l) \subseteq Words5
        BY <1>4, <1>9, KeysAreWords
      <4>2. "" \notin Words5
        BY DEF Words5
      <4> QED BY <4>1, <4>2
    <3> QED BY <1>6, <2>1, <3>1 DEF PathAt
  <2>6. \A k \in Read \ KeySet(l) : Get(m.val, k) = Get(l.val, k)
    BY <1>6, <2>1
  <2> QED BY <1>6, <1>7, <2>3, <2>4, <2>5, <2>6 DEF Alike, IsPathSet
<1> QED BY <1>8, <1>9

-----------------------------------------------------------------------------
(* How plan() comes to its arguments and copies: file by file.             *)

LEMMA MaxIs ==
    ASSUME NEW m \in Nat, NEW s, s \subseteq 1 .. m, m \in s
    PROVE  Max(s) = m
<1>1. \A y \in s : m >= y /\ y \in Nat
  OBVIOUS
<1>2. \A x \in s : (\A y \in s : x >= y) => x = m
  BY <1>1
<1> QED BY <1>1, <1>2 DEF Max

(* The fold of plan() by its positions: up to m, and in general.           *)
PlansTo(g, m, a, base, L) ==
    g = [s \in SUBSET (1 .. m) |->
            IF s = {} THEN base ELSE Planned(a, g[s \ {Max(s)}], L[Max(s)])]

Plans(g, a, base, L) ==
    g = [s \in SUBSET DOMAIN L |->
            IF s = {} THEN base ELSE Planned(a, g[s \ {Max(s)}], L[Max(s)])]

PlanBase(a, name) == [args |-> SetName(a, name), taken |-> {}, copies |-> <<>>]

PlanFold(a, name) == (CHOOSE g : Plans(g, a, PlanBase(a, name), FileList(a)))[DOMAIN FileList(a)]

LEMMA PlanIs ==
    ASSUME NEW a, NEW name
    PROVE  Plan(a, name) =
               [PlanFold(a, name) EXCEPT !.args = [i \in DOMAIN @ |-> NewAddress(@[i], i)]]
  BY DEF Plan, PlanFold, PlanBase, Plans, FoldLeft, MapThenFoldSet

LEMMA PlansThere ==
    ASSUME NEW a, NEW base, NEW L, NEW n \in Nat
    PROVE  \E g : PlansTo(g, n, a, base, L)
<1> DEFINE Good(m) == \E g : PlansTo(g, m, a, base, L)
           Lacking == {m \in 0 .. n : ~Good(m)}
<1> SUFFICES ASSUME Lacking # {} PROVE FALSE
  OBVIOUS
<1>1. PICK m \in Lacking : \A k \in Lacking : m <= k
  <2>1. Lacking \in SUBSET Nat
    OBVIOUS
  <2> QED BY <2>1, MinIs
<1>2. m # 0
  <2> DEFINE g == [s \in SUBSET (1 .. 0) |-> base]
  <2>1. \A s \in SUBSET (1 .. 0) : s = {}
    OBVIOUS
  <2>2. PlansTo(g, 0, a, base, L)
    BY <2>1 DEF PlansTo
  <2> QED BY <1>1, <2>2
<1>3. Good(m - 1) /\ m \in 1 .. n
  BY <1>1, <1>2
<1>4. PICK g : PlansTo(g, m - 1, a, base, L)
  BY <1>3
<1> HIDE DEF Good
<1> DEFINE h == [s \in SUBSET (1 .. m) |->
                    IF m \in s THEN Planned(a, g[s \ {m}], L[m]) ELSE g[s]]
<1>5. ASSUME NEW s \in SUBSET (1 .. m)
      PROVE  h[s] = IF s = {} THEN base ELSE Planned(a, h[s \ {Max(s)}], L[Max(s)])
  <2>1. CASE m \in s
    <3>0. m \in Nat /\ s \subseteq 1 .. m
      BY <1>3
    <3>1. Max(s) = m /\ s # {}
      BY <2>1, <3>0, MaxIs
    <3>2. s \ {m} \in SUBSET (1 .. m) /\ m \notin s \ {m}
      OBVIOUS
    <3>3. h[s \ {m}] = g[s \ {m}]
      BY <3>2
    <3> QED BY <2>1, <3>1, <3>3
  <2>2. CASE m \notin s
    <3>1. s \in SUBSET (1 .. m - 1)
      BY <1>3, <2>2
    <3>2. g[s] = IF s = {} THEN base ELSE Planned(a, g[s \ {Max(s)}], L[Max(s)])
      BY <1>4, <3>1, Zenon DEF PlansTo
    <3>3. h[s] = g[s]
      BY <2>2
    <3>4. h[s \ {Max(s)}] = g[s \ {Max(s)}]
      BY <2>2
    <3> QED BY <3>2, <3>3, <3>4
  <2> QED BY <2>1, <2>2
<1>6. PlansTo(h, m, a, base, L)
  BY <1>5 DEF PlansTo
<1> QED BY <1>1, <1>6 DEF Good

LEMMA PlanSteps ==
    ASSUME NEW a, NEW name, NEW S, FileList(a) \in Seq(S)
    PROVE  \E g : /\ g[0] = PlanBase(a, name)
                  /\ \A m \in 1 .. Len(FileList(a)) : g[m] = Planned(a, g[m - 1], FileList(a)[m])
                  /\ PlanFold(a, name) = g[Len(FileList(a))]
<1> DEFINE base == PlanBase(a, name)
           L == FileList(a)
           n == Len(L)
           g == CHOOSE g : Plans(g, a, base, L)
<1>1. DOMAIN L = 1 .. n /\ n \in Nat
  BY SeqIsFunction
<1> HIDE DEF base, L
<1>2. Plans(g, a, base, L)
  <2>1. PICK h : PlansTo(h, n, a, base, L)
    BY <1>1, PlansThere
  <2>2. Plans(h, a, base, L)
    BY <1>1, <2>1 DEF Plans, PlansTo
  <2> QED BY <2>2
<1> HIDE DEF g
<1>3. \A s \in SUBSET (1 .. n) :
          g[s] = IF s = {} THEN base ELSE Planned(a, g[s \ {Max(s)}], L[Max(s)])
  BY <1>1, <1>2, Zenon DEF Plans
<1> DEFINE h == [m \in 0 .. n |-> g[1 .. m]]
<1>4. h[0] = base
  <2>1. 1 .. 0 = {} /\ 1 .. 0 \in SUBSET (1 .. n) /\ 0 \in 0 .. n
    BY <1>1
  <2> QED BY <1>3, <2>1
<1>5. ASSUME NEW m \in 1 .. n
      PROVE  h[m] = Planned(a, h[m - 1], L[m])
  <2>0. m \in Nat /\ m # 0 /\ m <= n
    BY <1>1
  <2>a. 1 .. m \subseteq 1 .. n
    BY <1>1, <2>0
  <2>b. (1 .. m) \ {m} = 1 .. m - 1
    BY <2>0
  <2>c. m \in 1 .. m /\ m \in 0 .. n /\ m - 1 \in 0 .. n
    BY <1>1, <2>0
  <2>1. 1 .. m \in SUBSET (1 .. n) /\ 1 .. m # {}
    BY <2>a, <2>c
  <2>2. Max(1 .. m) = m
    BY <2>0, <2>c, MaxIs
  <2>3. g[1 .. m] = Planned(a, g[1 .. m - 1], L[m])
    BY <1>3, <2>1, <2>2, <2>b
  <2> QED BY <2>c, <2>3
<1>6. PlanFold(a, name) = h[n]
  <2>1. n \in 0 .. n
    BY <1>1
  <2> QED BY <1>1, <2>1 DEF PlanFold, g, base, L
<1> HIDE DEF h
<1> QED BY <1>4, <1>5, <1>6 DEF base, L

(* Of nine names one is free.                                              *)
LEMMA FreeNameIs ==
    ASSUME NEW name, NEW taken, IsFiniteSet(taken), Cardinality(taken) < 9,
           \A n, k \in 1..9 : Numbered(name, n) = Numbered(name, k) => n = k
    PROVE  \E n \in 1..9 : FreeName(name, taken) = Numbered(name, n)
<1> DEFINE free == {n \in 1..9 : Numbered(name, n) \notin taken}
<1>1. free # {}
  <2> SUFFICES ASSUME free = {} PROVE FALSE
    OBVIOUS
  <2> DEFINE f == [n \in 1..9 |-> Numbered(name, n)]
  <2>1. f \in [1..9 -> taken]
    OBVIOUS
  <2>2. IsFiniteSet(1..9) /\ Cardinality(1..9) = 9
    <3> DEFINE m == 1
               n == 9
    <3>1. m \in Int /\ n \in Int /\ n - m + 1 = 9 /\ ~(m > n)
      OBVIOUS
    <3> HIDE DEF m, n
    <3>2. IsFiniteSet(m..n) /\ Cardinality(m..n) = 9
      BY <3>1, FS_Interval
    <3> QED BY <3>2 DEF m, n
  <2> HIDE DEF f
  <2>3. \E x, y \in 1..9 : x # y /\ f[x] = f[y]
    BY <2>1, <2>2, FS_PigeonHole
  <2> QED BY <2>3 DEF f
<1>2. free \in SUBSET Nat
  OBVIOUS
<1> HIDE DEF free
<1>3. Min(free) \in free
  BY <1>1, <1>2, MinIs
<1>4. Min(free) \in 1..9
  BY <1>3 DEF free
<1>5. FreeName(name, taken) = Numbered(name, Min(free))
  BY DEF FreeName, free
<1> QED BY <1>4, <1>5

LEMMA PathIs ==
    ASSUME NEW b, NEW i, NEW key
    PROVE  Path(b, <<i, key>>) = PathAt(b[i], key)
  BY DEF Path, PathAt

LEMMA FileSetIs ==
    ASSUME NEW T, NEW b \in Seq(T), NEW i \in 1 .. Len(b), NEW key, NEW w
    PROVE  SetFile(b, <<i, key>>, w) = [b EXCEPT ![i] = PathSet(b[i], key, w)]
  BY DEF SetFile, SetValueAt, PathSet

(* The words of arguments, and those that plan() puts there.               *)
WordsFor(a) == STRING \cup Words5 \cup {"", "guest", "clone"} \cup FilePlaces(a) \cup CopyNames(a)
CloneLine(a) == Line(STRING, STRING, Seq(WordsFor(a) \X WordsFor(a)))

LEMMA KeysAreFor ==
    ASSUME NEW a
    PROVE  HasKeys(WordsFor(a)) /\ "guest" \in WordsFor(a) /\ "clone" \in WordsFor(a)
  BY DEF HasKeys, WordsFor

LEMMA LongerLines ==
    ASSUME NEW a \in Seq([kind : STRING, name : STRING, val : Seq(STRING \X STRING)])
    PROVE  a \in Seq(CloneLine(a))
<1> DEFINE W == WordsFor(a)
           V == Seq(STRING \X STRING)
           U == Seq(W \X W)
<1>1. STRING \subseteq W
  BY DEF WordsFor
<1> HIDE DEF W
<1>2. STRING \X STRING \subseteq W \X W
  BY <1>1
<1>3. V \subseteq U
  BY <1>2
<1> HIDE DEF U, V
<1>4. [kind : STRING, name : STRING, val : V] \subseteq [kind : STRING, name : STRING, val : U]
  BY <1>3
<1>5. a \in Seq([kind : STRING, name : STRING, val : U])
  <2> DEFINE X == [kind : STRING, name : STRING, val : V]
             Y == [kind : STRING, name : STRING, val : U]
  <2>1. a \in Seq(X)
    BY DEF V
  <2>2. X \subseteq Y
    BY <1>4
  <2> HIDE DEF X, Y
  <2>3. a \in Seq(Y)
    BY <2>1, <2>2
  <2> QED BY <2>3 DEF Y
<1> QED BY <1>5 DEF CloneLine, Line, U, W

KeyWords == Words5 \cup {""}

(* What a file is set to, on any line.                                     *)
LEMMA PathSetStays ==
    ASSUME NEW a, NEW l \in CloneLine(a), NEW key \in KeyWords, NEW w \in WordsFor(a)
    PROVE  PathSet(l, key, w) \in CloneLine(a) /\ PathSet(l, key, w).name = l.name
<1> DEFINE W == WordsFor(a)
           V == Seq(W \X W)
           K == STRING
           v == IF key = "" THEN <<<<"", w>>>> ELSE SetItem(l.val, key, w)
<1>1. l.val \in V
  BY DEF CloneLine, Line
<1>2. key \in W /\ HasKeys(W)
  BY KeysAreFor DEF HasKeys, KeyWords
<1>3. v \in V
  <2>1. <<<<"", w>>>> \in V
    BY <1>2, WholeSetIs
  <2>2. SetItem(l.val, key, w) \in V
    BY <1>1, <1>2, ItemIsValue
  <2> QED BY <2>1, <2>2
<1>4. PathSet(l, key, w) = [l EXCEPT !.val = v]
  BY DEF PathSet
<1>5. PICK l0 \in Line(K, K, V) : l0 = l
  BY DEF CloneLine
<1> HIDE DEF v, V, K
<1>6. PICK v0 \in V : v0 = v
  BY <1>3
<1>7. \E e \in Line(K, K, V) : e = [l0 EXCEPT !.val = v0] /\ e.name = l0.name
  BY LineChanged
<1> QED BY <1>4, <1>5, <1>6, <1>7 DEF CloneLine, V, K

(* The options of lines whose files QEMU may open to write.                *)
Opened == {"drive", "blockdev", "pflash"} \cup HardDisks

(* What plan() has after m files, of the arguments a.  The lines of these  *)
(* options name the same files, elsewhere, and what is written has a place *)
(* of its own.                                                             *)
PlanLines(a, b) ==
    /\ b \in Seq(CloneLine(a)) /\ Len(b) = Len(a)
    /\ \A i \in 1 .. Len(a) : /\ b[i].name = a[i].name
                              /\ a[i].name \in Opened => Alike(a[i], b[i])

FewTaken(a, taken, m) ==
    taken \subseteq CopyNames(a) /\ IsFiniteSet(taken) /\ Cardinality(taken) <= m

PlacedAll(a, b, taken, m) ==
    \A n \in 1 .. m : a[FileList(a)[n][1]].name \in Opened /\ Writes(a, FileList(a)[n]) =>
                          Path(b, FileList(a)[n]) \in taken

PlanInv(a, p, m) ==
    /\ p = [args |-> p.args, taken |-> p.taken, copies |-> p.copies]
    /\ PlanLines(a, p.args) /\ FewTaken(a, p.taken, m) /\ PlacedAll(a, p.args, p.taken, m)
    /\ DOMAIN p.copies \subseteq CopyPlaces(a)

LEMMA AlikeSelf == ASSUME NEW l PROVE Alike(l, l)
  BY DEF Alike

LEMMA NameLine ==
    ASSUME NEW T, NEW a \in Seq(T), IndexOf(a, "name") # 0
    PROVE  /\ IndexOf(a, "name") \in 1 .. Len(a)
           /\ a[IndexOf(a, "name")].name \notin Opened
<1>1. IndexesOf(a, "name") \in SUBSET Nat /\ IndexesOf(a, "name") # {}
  BY LinesOfBothKinds, LinesAre DEF IndexOf, First
<1>2. IndexOf(a, "name") = Min(IndexesOf(a, "name"))
  BY <1>1 DEF IndexOf, First
<1>3. IndexOf(a, "name") \in IndexesOf(a, "name")
  BY <1>1, <1>2, MinIs
<1>4. IndexOf(a, "name") \in DOMAIN a /\ CanonicalName(a[IndexOf(a, "name")].name) = "name"
  BY <1>3 DEF IndexesOf
<1> QED BY <1>4 DEF CanonicalName, Opened, HardDisks

LEMMA PlanStarts ==
    ASSUME NEW a, Cloneable(a)
    PROVE  PlanInv(a, PlanBase(a, "clone"), 0)
<1> DEFINE i == IndexOf(a, "name")
           b == SetName(a, "clone")
           W == WordsFor(a)
           V == Seq(W \X W)
           K == STRING
           v == SetLong(a[i].val, "guest", "clone")
<1>1. a \in Seq(CloneLine(a))
  BY LongerLines DEF Cloneable
<1>2. i \in 1 .. Len(a) /\ a[i].name \notin Opened
  BY <1>1, NameLine DEF Cloneable
<1>3. i # 0
  BY DEF Cloneable
<1> HIDE DEF i
<1>4. PICK l \in Line(K, K, V) : l = a[i]
  BY <1>1, <1>2 DEF CloneLine
<1>5. PICK u \in V : u = l.val
  BY <1>4 DEF Line
<1>6. v \in V
  <2>1. PICK guest \in W, clone \in W : guest = "guest" /\ clone = "clone"
    BY KeysAreFor
  <2>2. "" \in W
    BY KeysAreFor DEF HasKeys
  <2> HIDE DEF W
  <2>3. SetLong(u, guest, clone) \in V
    BY <2>2, LongIsValue
  <2> QED BY <1>4, <1>5, <2>1, <2>3
<1>7. b = [a EXCEPT ![i].val = v]
  BY <1>3 DEF SetName, SetValueAt, i
<1> HIDE DEF v, V, K
<1>8. PICK w \in V : w = v
  BY <1>6
<1>9. PICK e \in Line(K, K, V) : e = [l EXCEPT !.val = w] /\ e.name = l.name
  BY LineChanged
<1>10. e \in CloneLine(a)
  BY DEF CloneLine, V, K
<1>11. b = [a EXCEPT ![i] = e]
  BY <1>4, <1>7, <1>8, <1>9
<1>12. /\ b \in Seq(CloneLine(a)) /\ Len(b) = Len(a)
       /\ b[i] = e /\ \A j \in (1 .. Len(a)) \ {i} : b[j] = a[j]
  BY <1>1, <1>2, <1>10, <1>11, ReplacedAt
<1> HIDE DEF b
<1>13. PlanLines(a, b)
  BY <1>2, <1>4, <1>9, <1>12, AlikeSelf DEF PlanLines
<1>14. FewTaken(a, {}, 0)
  BY FS_EmptySet DEF FewTaken
<1>15. PlacedAll(a, b, {}, 0)
  BY DEF PlacedAll
<1>16. /\ PlanBase(a, "clone").args = b /\ PlanBase(a, "clone").taken = {}
       /\ PlanBase(a, "clone").copies = <<>>
       /\ PlanBase(a, "clone") = [args |-> b, taken |-> {}, copies |-> <<>>]
  BY DEF PlanBase, b
<1>17. DOMAIN (<<>>) \subseteq CopyPlaces(a)
  OBVIOUS
<1> QED BY <1>13, <1>14, <1>15, <1>16, <1>17, Zenon DEF PlanInv

IsReplaced(b, i, e, c) ==
    Len(c) = Len(b) /\ c[i] = e /\ \A j \in (1 .. Len(b)) \ {i} : c[j] = b[j]

LEMMA LineSet ==
    ASSUME NEW T, NEW b \in Seq(T), NEW i \in 1 .. Len(b), NEW key, NEW w,
           PathSet(b[i], key, w) \in T
    PROVE  /\ SetFile(b, <<i, key>>, w) \in Seq(T)
           /\ IsReplaced(b, i, PathSet(b[i], key, w), SetFile(b, <<i, key>>, w))
<1>1. PICK e \in T : e = PathSet(b[i], key, w)
  OBVIOUS
<1>2. PICK c : c = SetFile(b, <<i, key>>, w)
  OBVIOUS
<1>3. c = [b EXCEPT ![i] = e]
  BY <1>1, <1>2, FileSetIs
<1>4. /\ c \in Seq(T) /\ Len(c) = Len(b)
      /\ c[i] = e /\ \A j \in (1 .. Len(b)) \ {i} : c[j] = b[j]
  BY <1>3, ReplacedAt
<1>5. c \in Seq(T) /\ IsReplaced(b, i, e, c)
  BY <1>4 DEF IsReplaced
<1> QED BY <1>1, <1>2, <1>5, Zenon

(* The arguments with one of their files elsewhere.                        *)
LEMMA PlanLinesSet ==
    ASSUME NEW a, NEW b, PlanLines(a, b), NEW i \in 1 .. Len(a), NEW key \in KeyWords,
           NEW w \in WordsFor(a), NamesIt(w), NEW c, c = SetFile(b, <<i, key>>, w),
           key \in KeySet(a[i])
    PROVE  /\ PlanLines(a, c)
           /\ a[i].name \in Opened => Path(c, <<i, key>>) = w
           /\ \A j \in 1 .. Len(a), k \in KeyWords :
                  /\ a[j].name \in Opened /\ k \in KeySet(a[j])
                  /\ <<j, k>> # <<i, key>>
                  => Path(c, <<j, k>>) = Path(b, <<j, k>>)
<1> DEFINE W == WordsFor(a)
           V == Seq(W \X W)
           K == STRING
           m == PathSet(b[i], key, w)
<1>1. b \in Seq(CloneLine(a)) /\ Len(b) = Len(a) /\ i \in 1 .. Len(b)
  BY DEF PlanLines
<1>2. PICK l \in CloneLine(a) : l = b[i]
  BY <1>1
<1>3. m \in CloneLine(a) /\ m.name = l.name
  BY <1>2, PathSetStays
<1>5. /\ c \in Seq(CloneLine(a)) /\ Len(c) = Len(a)
      /\ c[i] = m /\ \A j \in (1 .. Len(a)) \ {i} : c[j] = b[j]
  BY <1>1, <1>3, LineSet DEF IsReplaced, m
<1> HIDE DEF m
<1>6. ASSUME a[i].name \in Opened
      PROVE  /\ Alike(a[i], m) /\ PathAt(m, key) = w
             /\ \A k \in KeySet(a[i]) \ {key} : PathAt(m, k) = PathAt(b[i], k)
  <2>1. Alike(a[i], b[i])
    BY <1>6 DEF PlanLines
  <2>2. KeySet(b[i]) = KeySet(a[i])
    BY <2>1 DEF Alike
  <2>3. PICK l0 \in Line(K, K, V) : l0 = b[i]
    BY <1>2 DEF CloneLine
  <2>4. PICK k0 \in KeySet(l0) : k0 = key
    BY <2>2, <2>3
  <2>5. HasKeys(W)
    BY KeysAreFor
  <2>6. PICK w0 \in W : w0 = w
    OBVIOUS
  <2>7. NamesIt(w0)
    BY <2>6
  <2> HIDE DEF W, K
  <2>8. IsPathSet(l0, k0, w0, PathSet(l0, k0, w0))
    BY <2>5, <2>7, PathSetIs
  <2>9. m = PathSet(l0, k0, w0)
    BY <2>3, <2>4, <2>6 DEF m
  <2> HIDE DEF m
  <2>10. Alike(a[i], m)
    BY <2>1, <2>3, <2>8, <2>9, AlikeChain DEF IsPathSet
  <2> QED BY <2>2, <2>3, <2>4, <2>6, <2>8, <2>9, <2>10 DEF IsPathSet
<1>7. PlanLines(a, c)
  BY <1>1, <1>2, <1>3, <1>5, <1>6 DEF PlanLines
<1>8. a[i].name \in Opened => Path(c, <<i, key>>) = w
  BY <1>5, <1>6, PathIs
<1>9. ASSUME NEW j \in 1 .. Len(a), NEW k \in KeyWords, a[j].name \in Opened, k \in KeySet(a[j]),
             <<j, k>> # <<i, key>>
      PROVE  Path(c, <<j, k>>) = Path(b, <<j, k>>)
  <2>1. Path(c, <<j, k>>) = PathAt(c[j], k) /\ Path(b, <<j, k>>) = PathAt(b[j], k)
    BY PathIs
  <2>2. CASE j = i
    BY <1>5, <1>6, <1>9, <2>1, <2>2
  <2>3. CASE j # i
    BY <1>5, <2>1, <2>3
  <2> QED BY <2>2, <2>3
<1> QED BY <1>7, <1>8, <1>9

-----------------------------------------------------------------------------
(* One file planned.                                                       *)

(* A file of the list: a line of the arguments, and a key.                 *)
LEMMA FileIs ==
    ASSUME NEW a, Cloneable(a), NEW n \in 1 .. Len(FileList(a))
    PROVE  \E i \in 1 .. Len(a), key \in KeyWords :
               /\ FileList(a)[n] = <<i, key>> /\ key \in KeySet(a[i])
               /\ <<i, key>> \in Files(a)
<1>1. a \in Seq(CloneLine(a))
  BY LongerLines DEF Cloneable
<1>2. Holds(FileList(a), FileList(a)[n])
  BY DEF Holds
<1>3. PICK i \in 1 .. Len(a) : \E key \in KeySet(a[i]) : FileList(a)[n] = <<i, key>>
  <2>1. \A f : Holds(FileList(a), f) <=>
                   \E i \in 1 .. Len(a) : \E key \in KeySet(a[i]) : f = <<i, key>>
    BY <1>1, ListHolds
  <2> QED BY <1>2, <2>1, Zenon
<1>4. PICK key \in KeySet(a[i]) : FileList(a)[n] = <<i, key>>
  BY <1>3
<1>5. key \in KeyWords
  BY KeysAreWords DEF KeySet, KeyWords
<1>6. <<i, key>> \in Files(a)
  BY <1>1, <1>4, FilesAre
<1> QED BY <1>4, <1>5, <1>6

LEMMA PlaceTells ==
    ASSUME NEW a, Cloneable(a), NEW f \in Files(a)
    PROVE  /\ Place("vm", Path(a, f)) \in FilePlaces(a)
           /\ Place("vm", Path(a, f)) \in WordsFor(a) /\ NamesIt(Place("vm", Path(a, f)))
<1>1. Place("vm", Path(a, f)) \in FilePlaces(a)
  BY DEF FilePlaces
<1>2. FilePlaces(a) \cap NoNames = {}
  BY DEF Cloneable
<1> QED BY <1>1, <1>2 DEF WordsFor, NamesIt, NoNames

LEMMA CopyTells ==
    ASSUME NEW a, Cloneable(a), NEW w \in CopyNames(a)
    PROVE  w \in WordsFor(a) /\ NamesIt(w) /\ w \notin Paths
<1>1. CopyNames(a) \cap (Paths \cup NoNames) = {}
  BY DEF Cloneable
<1> QED BY <1>1 DEF WordsFor, NamesIt, NoNames

(* What is written before stays where it is, or gets the same place again. *)
LEMMA PlacedStays ==
    ASSUME NEW a, Cloneable(a), NEW b, PlanLines(a, b), NEW taken, NEW m \in 1 .. Len(FileList(a)),
           PlacedAll(a, b, taken, m - 1),
           NEW w \in WordsFor(a), NamesIt(w), NEW c, c = SetFile(b, FileList(a)[m], w),
           NEW more, taken \subseteq more, Writes(a, FileList(a)[m]) => w \in more
    PROVE  PlanLines(a, c) /\ PlacedAll(a, c, more, m)
<1>1. PICK i \in 1 .. Len(a), key \in KeyWords :
          FileList(a)[m] = <<i, key>> /\ key \in KeySet(a[i])
  BY FileIs
<1>2. /\ PlanLines(a, c)
      /\ a[i].name \in Opened => Path(c, <<i, key>>) = w
      /\ \A j \in 1 .. Len(a), k \in KeyWords :
             /\ a[j].name \in Opened /\ k \in KeySet(a[j])
             /\ <<j, k>> # <<i, key>>
             => Path(c, <<j, k>>) = Path(b, <<j, k>>)
  BY <1>1, PlanLinesSet
<1>3. ASSUME NEW n \in 1 .. m, a[FileList(a)[n][1]].name \in Opened, Writes(a, FileList(a)[n])
      PROVE  Path(c, FileList(a)[n]) \in more
  <2>1. n \in 1 .. Len(FileList(a))
    OBVIOUS
  <2>2. PICK j \in 1 .. Len(a), k \in KeyWords :
            FileList(a)[n] = <<j, k>> /\ k \in KeySet(a[j])
    BY <2>1, FileIs
  <2>3. a[j].name \in Opened
    BY <1>3, <2>2
  <2>4. CASE <<j, k>> = <<i, key>>
    <3>1. FileList(a)[n] = FileList(a)[m] /\ i = j
      BY <1>1, <2>2, <2>4
    <3>2. Path(c, FileList(a)[m]) = w
      BY <1>1, <1>2, <2>3, <3>1
    <3>3. w \in more
      BY <1>3, <3>1
    <3> QED BY <3>1, <3>2, <3>3
  <2>5. CASE <<j, k>> # <<i, key>>
    <3>1. n \in 1 .. m - 1
      <4>1. n # m
        BY <1>1, <2>2, <2>5
      <4> QED BY <4>1
    <3>2. Path(b, FileList(a)[n]) \in taken
      BY <1>3, <3>1 DEF PlacedAll
    <3>3. Path(c, FileList(a)[n]) = Path(b, FileList(a)[n])
      BY <1>2, <2>2, <2>3, <2>5
    <3> QED BY <3>2, <3>3
  <2> QED BY <2>4, <2>5
<1> QED BY <1>2, <1>3 DEF PlacedAll

(* What plan() makes of one file.                                          *)
PlansOne(a, p, file, b, taken, copies, q) ==
    LET path == Place("vm", Path(a, file))
        copy == FreeName(FileName(path), taken)
    IN  /\ ~Writes(a, file) /\ Absolute(Path(a, file)) => q = p
        /\ ~Writes(a, file) /\ ~Absolute(Path(a, file)) =>
               q = [args |-> SetFile(b, file, path), taken |-> taken, copies |-> copies]
        /\ Writes(a, file) =>
               \E cs : /\ q = [args |-> SetFile(b, file, copy), taken |-> taken \cup {copy},
                               copies |-> cs]
                       /\ DOMAIN cs \subseteq DOMAIN copies \cup {InFolder("clone", copy)}

LEMMA PlannedIs ==
    ASSUME NEW a, NEW p, NEW file, NEW b, NEW taken, NEW copies,
           p = [args |-> b, taken |-> taken, copies |-> copies]
    PROVE  PlansOne(a, p, file, b, taken, copies, Planned(a, p, file))
<1> DEFINE path == Place("vm", Path(a, file))
           copy == FreeName(FileName(path), taken)
           q == Planned(a, p, file)
<1>1. p.args = b /\ p.taken = taken /\ p.copies = copies
  OBVIOUS
<1>2. q = IF ~Writes(a, file)
          THEN IF Absolute(Path(a, file)) THEN p ELSE [p EXCEPT !.args = SetFile(@, file, path)]
          ELSE [args   |-> SetFile(p.args, file, copy),
                taken  |-> p.taken \cup {copy},
                copies |-> IF path \notin DOMAIN files THEN p.copies
                           ELSE Put(p.copies, InFolder("clone", copy), files[path])]
  BY <1>1 DEF Planned
<1> DEFINE cs == IF path \notin DOMAIN files THEN p.copies
                 ELSE Put(p.copies, InFolder("clone", copy), files[path])
<1>a. DOMAIN cs \subseteq DOMAIN copies \cup {InFolder("clone", copy)}
  BY <1>1 DEF Put
<1>b. q = IF ~Writes(a, file)
          THEN IF Absolute(Path(a, file)) THEN p ELSE [p EXCEPT !.args = SetFile(@, file, path)]
          ELSE [args |-> SetFile(p.args, file, copy), taken |-> p.taken \cup {copy}, copies |-> cs]
  BY <1>2
<1> HIDE DEF q, path, copy, cs
<1>3. [p EXCEPT !.args = SetFile(@, file, path)] =
          [args |-> SetFile(b, file, path), taken |-> taken, copies |-> copies]
  OBVIOUS
<1>4. PlansOne(a, p, file, b, taken, copies, q)
  BY <1>1, <1>a, <1>b, <1>3 DEF PlansOne, path, copy
<1> QED BY <1>4 DEF q

LEMMA PlanKeeps ==
    ASSUME NEW a, Cloneable(a), NEW p, NEW m \in 1 .. Len(FileList(a)), PlanInv(a, p, m - 1)
    PROVE  PlanInv(a, Planned(a, p, FileList(a)[m]), m)
<1> DEFINE file == FileList(a)[m]
           path == Place("vm", Path(a, file))
           copy == FreeName(FileName(path), p.taken)
           q == Planned(a, p, file)
<1>1. PICK b, taken, copies :
          /\ p = [args |-> b, taken |-> taken, copies |-> copies]
          /\ b = p.args /\ taken = p.taken
  BY DEF PlanInv
<1>a. DOMAIN copies \subseteq CopyPlaces(a)
  BY <1>1 DEF PlanInv
<1>2. PlanLines(a, b) /\ FewTaken(a, taken, m - 1) /\ PlacedAll(a, b, taken, m - 1)
  BY <1>1 DEF PlanInv
<1>3. file \in Files(a)
  BY FileIs
<1>4. path \in FilePlaces(a) /\ path \in WordsFor(a) /\ NamesIt(path)
  BY <1>3, PlaceTells
<1>5. m \in Nat /\ m - 1 < 9 /\ Cardinality(taken) \in Nat
  <2>1. Len(FileList(a)) <= 9
    BY DEF Cloneable
  <2>2. Len(FileList(a)) \in Nat
    <3>1. a \in Seq(CloneLine(a))
      BY LongerLines DEF Cloneable
    <3>2. FileList(a) \in Seq((1 .. Len(a)) \X (Words5 \cup {""}))
      BY <3>1, ListHolds
    <3> QED BY <3>2, SeqIsFunction
  <2>3. IsFiniteSet(taken)
    BY <1>2 DEF FewTaken
  <2>4. Cardinality(taken) \in Nat
    BY <2>3, FS_CardinalityType
  <2> QED BY <2>1, <2>2, <2>4
<1>6. copy \in CopyNames(a)
  <2>1. IsFiniteSet(taken) /\ Cardinality(taken) < 9
    BY <1>2, <1>5 DEF FewTaken
  <2>2. \A n, k \in 1..9 : Numbered(FileName(path), n) = Numbered(FileName(path), k) => n = k
    BY <1>4 DEF Cloneable
  <2>3. \E n \in 1..9 : FreeName(FileName(path), taken) = Numbered(FileName(path), n)
    BY <2>1, <2>2, FreeNameIs
  <2> QED BY <1>1, <1>4, <2>3 DEF CopyNames
<1>7. copy \in WordsFor(a) /\ NamesIt(copy)
  BY <1>6, CopyTells
<1>8. FewTaken(a, taken, m) /\ FewTaken(a, taken \cup {copy}, m)
  <2>1. taken \subseteq CopyNames(a) /\ IsFiniteSet(taken) /\ Cardinality(taken) <= m - 1
    BY <1>2 DEF FewTaken
  <2>2. /\ IsFiniteSet(taken \cup {copy})
        /\ Cardinality(taken \cup {copy}) = IF copy \in taken THEN Cardinality(taken)
                                            ELSE Cardinality(taken) + 1
    BY <2>1, FS_AddElement
  <2>3. Cardinality(taken) <= m /\ Cardinality(taken \cup {copy}) <= m
    BY <1>5, <2>1, <2>2
  <2> QED BY <1>6, <2>1, <2>2, <2>3 DEF FewTaken
<1>b. PlansOne(a, p, file, b, taken, copies, q)
  <2>1. p = [args |-> b, taken |-> taken, copies |-> copies]
    BY <1>1
  <2> HIDE DEF file, path, copy
  <2> QED BY <2>1, PlannedIs
<1>c. copy = FreeName(FileName(path), taken)
  BY <1>1
<1> HIDE DEF file, path, copy, q
<1>9. /\ ~Writes(a, file) /\ Absolute(Path(a, file)) => q = p
      /\ ~Writes(a, file) /\ ~Absolute(Path(a, file)) =>
             q = [args |-> SetFile(b, file, path), taken |-> taken, copies |-> copies]
      /\ Writes(a, file) =>
             \E cs : /\ q = [args |-> SetFile(b, file, copy), taken |-> taken \cup {copy},
                             copies |-> cs]
                     /\ DOMAIN cs \subseteq DOMAIN copies \cup {InFolder("clone", copy)}
  BY <1>b, <1>c DEF PlansOne, path
<1>10. CASE ~Writes(a, file) /\ Absolute(Path(a, file))
  <2>1. PlacedAll(a, b, taken, m)
    <3>1. \A n \in 1 .. m : n \in 1 .. m - 1 \/ n = m
      BY <1>5
    <3> QED BY <1>2, <1>10, <3>1 DEF PlacedAll, file
  <2>2. q = p
    BY <1>9, <1>10
  <2>3. PlanInv(a, p, m)
    BY <1>1, <1>2, <1>8, <1>a, <2>1 DEF PlanInv
  <2> QED BY <2>2, <2>3 DEF q, file
<1>11. CASE ~Writes(a, file) /\ ~Absolute(Path(a, file))
  <2>1. PICK c : c = SetFile(b, file, path)
    OBVIOUS
  <2>2. PlanLines(a, c) /\ PlacedAll(a, c, taken, m)
    BY <1>2, <1>4, <1>11, <2>1, PlacedStays DEF file
  <2>3. q = [args |-> c, taken |-> taken, copies |-> copies]
    BY <1>9, <1>11, <2>1
  <2>4. PlanInv(a, q, m)
    BY <1>8, <1>a, <2>2, <2>3 DEF PlanInv
  <2> QED BY <2>4 DEF q, file
<1>12. CASE Writes(a, file)
  <2>1. PICK c : c = SetFile(b, file, copy)
    OBVIOUS
  <2>2. PICK more : more = taken \cup {copy}
    OBVIOUS
  <2>3. PlanLines(a, c) /\ PlacedAll(a, c, more, m)
    <3>1. taken \subseteq more /\ copy \in more
      BY <2>2
    <3> QED BY <1>2, <1>7, <2>1, <3>1, PlacedStays DEF file
  <2>4. PICK cs : /\ q = [args |-> c, taken |-> more, copies |-> cs]
                  /\ DOMAIN cs \subseteq DOMAIN copies \cup {InFolder("clone", copy)}
    BY <1>9, <1>12, <2>1, <2>2
  <2>a. DOMAIN cs \subseteq CopyPlaces(a)
    BY <1>6, <1>a, <2>4 DEF CopyPlaces
  <2>5. PlanInv(a, q, m)
    BY <1>8, <2>2, <2>3, <2>4, <2>a DEF PlanInv
  <2> QED BY <2>5 DEF q, file
<1> QED BY <1>10, <1>11, <1>12

-----------------------------------------------------------------------------
(* What is planned in the end, and what a clone is.                        *)

LEMMA PlanEnds ==
    ASSUME NEW a, Cloneable(a)
    PROVE  PlanInv(a, PlanFold(a, "clone"), Len(FileList(a)))
<1> DEFINE n == Len(FileList(a))
<1>1. FileList(a) \in Seq((1 .. Len(a)) \X (Words5 \cup {""})) /\ n \in Nat
  <2>1. a \in Seq(CloneLine(a))
    BY LongerLines DEF Cloneable
  <2>2. FileList(a) \in Seq((1 .. Len(a)) \X (Words5 \cup {""}))
    BY <2>1, ListHolds
  <2> QED BY <2>2, SeqIsFunction
<1>2. PICK g : /\ g[0] = PlanBase(a, "clone")
               /\ \A m \in 1 .. n : g[m] = Planned(a, g[m - 1], FileList(a)[m])
               /\ PlanFold(a, "clone") = g[n]
  BY <1>1, PlanSteps
<1> DEFINE Wrong == {m \in 0 .. n : ~PlanInv(a, g[m], m)}
<1>3. Wrong = {}
  <2> SUFFICES ASSUME Wrong # {} PROVE FALSE
    OBVIOUS
  <2>1. PICK m \in Wrong : \A k \in Wrong : m <= k
    <3>1. Wrong \in SUBSET Nat
      OBVIOUS
    <3> HIDE DEF Wrong
    <3> QED BY <3>1, MinIs
  <2>2. PlanInv(a, g[0], 0)
    BY <1>2, PlanStarts
  <2>3. m \in 1 .. n
    BY <2>1, <2>2
  <2>4. PlanInv(a, g[m - 1], m - 1)
    <3>1. m - 1 \in 0 .. n /\ ~(m <= m - 1)
      BY <2>3
    <3> QED BY <2>1, <3>1
  <2>5. PlanInv(a, Planned(a, g[m - 1], FileList(a)[m]), m)
    BY <2>3, <2>4, PlanKeeps
  <2>6. g[m] = Planned(a, g[m - 1], FileList(a)[m])
    BY <1>2, <2>3
  <2> QED BY <2>1, <2>5, <2>6
<1>4. n \in Nat
  BY <1>1
<1>5. n \in 0 .. n
  BY <1>4
<1> QED BY <1>2, <1>3, <1>5

LEMMA AddressName ==
    ASSUME NEW K, NEW N, NEW V, NEW l \in Line(K, N, V), NEW i
    PROVE  NewAddress(l, i).name = l.name
<1>1. \A v : [l EXCEPT !.val = v].name = l.name
  BY DEF Line
<1>2. NewAddress(l, i) = l \/ \E v : NewAddress(l, i) = [l EXCEPT !.val = v]
  BY Zenon DEF NewAddress
<1> QED BY <1>1, <1>2

LEMMA AddressStays ==
    ASSUME NEW l, NEW i, l.name \in Opened
    PROVE  NewAddress(l, i) = l
<1>1. l.name \notin {"uuid", "device", "net", "nic"}
  BY DEF Opened, HardDisks
<1> QED BY <1>1 DEF NewAddress

(* Of what QEMU opens to write of lines alike, plan() gives it a place.    *)
OpensAt(l) ==
    \/ l.name \in HardDisks \cup {"pflash"}
    \/ l.name = "drive" /\ ~Flag(l.val, "readonly", FALSE) /\ Get(l.val, "media") # "cdrom"
    \/ l.name = "blockdev" /\ ~Flag(l.val, "read-only", FALSE)

LEMMA OpensIs ==
    ASSUME NEW a, NEW id
    PROVE  /\ \A p : p \in QemuWrites(a, id) <=>
                  \E f \in Files(a) : OpensAt(a[f[1]]) /\ p = Place(id, Path(a, f))
  BY DEF QemuWrites, OpensAt

LEMMA OpenedWrites ==
    ASSUME NEW a, NEW i, NEW key, NEW m, Alike(a[i], m), OpensAt(m)
    PROVE  a[i].name \in Opened /\ Writes(a, <<i, key>>)
<1> DEFINE l == a[i]
<1>1. m.name = l.name /\ l.name \in Opened
  BY DEF Alike, OpensAt, Opened
<1>2. CASE l.name \in HardDisks \cup {"pflash"}
  BY <1>1, <1>2 DEF Writes, HardDisks
<1>3. CASE l.name \in {"drive", "blockdev"}
  <2>1. l.name \notin FileOptions
    BY <1>3 DEF FileOptions
  <2>2. KeySet(l) \subseteq Words5
    BY <2>1, KeysAreWords DEF KeySet
  <2>3. /\ "media" \notin Words5 /\ "readonly" \notin Words5 /\ "read-only" \notin Words5
        /\ "media" \in Read /\ "readonly" \in Read /\ "read-only" \in Read
    BY DEF Words5, Read
  <2>4. /\ Get(m.val, "media") = Get(l.val, "media")
        /\ Get(m.val, "readonly") = Get(l.val, "readonly")
        /\ Get(m.val, "read-only") = Get(l.val, "read-only")
    BY <2>1, <2>2, <2>3 DEF Alike
  <2>5. /\ Flag(m.val, "readonly", FALSE) = Flag(l.val, "readonly", FALSE)
        /\ Flag(m.val, "read-only", FALSE) = Flag(l.val, "read-only", FALSE)
    BY <2>4, Zenon DEF Flag
  <2>6. <<i, key>>[1] = i
    OBVIOUS
  <2>7. CASE l.name = "drive"
    <3>1. ~Flag(l.val, "readonly", FALSE) /\ Get(l.val, "media") # "cdrom"
      BY <1>1, <2>4, <2>5, <2>7 DEF OpensAt, HardDisks
    <3> QED BY <1>1, <2>6, <2>7, <3>1 DEF Writes
  <2>8. CASE l.name = "blockdev"
    <3>1. ~Flag(l.val, "read-only", FALSE)
      BY <1>1, <2>5, <2>8 DEF OpensAt, HardDisks
    <3> QED BY <1>1, <2>6, <2>8, <3>1 DEF Writes
  <2> QED BY <1>3, <2>7, <2>8
<1> QED BY <1>1, <1>2, <1>3 DEF Opened

LEMMA CloneApart ==
    ASSUME NEW a, Cloneable(a)
    PROVE  QemuWrites(Plan(a, "clone").args, "clone") \cap QemuWrites(a, "vm") = {}
<1> DEFINE p == PlanFold(a, "clone")
           b == p.args
           c == [i \in DOMAIN b |-> NewAddress(b[i], i)]
           n == Len(FileList(a))
<1>1. PlanInv(a, p, n)
  BY PlanEnds
<1>2. Plan(a, "clone").args = c
  <2>1. PICK bb, taken, copies :
            p = [args |-> bb, taken |-> taken, copies |-> copies]
    BY <1>1 DEF PlanInv
  <2>2. Plan(a, "clone") = [p EXCEPT !.args = [i \in DOMAIN @ |-> NewAddress(@[i], i)]]
    BY PlanIs
  <2> HIDE DEF p
  <2> QED BY <2>1, <2>2
<1> HIDE DEF p
<1>3. PlanLines(a, b) /\ p.taken \subseteq CopyNames(a) /\ PlacedAll(a, b, p.taken, n)
  BY <1>1 DEF PlanInv, FewTaken
<1>4. a \in Seq(CloneLine(a)) /\ b \in Seq(CloneLine(a)) /\ Len(b) = Len(a)
  BY <1>3, LongerLines DEF Cloneable, PlanLines
<1>5. DOMAIN c = 1 .. Len(a) /\ Len(c) = Len(a) /\ \A i \in 1 .. Len(a) : c[i] = NewAddress(b[i], i)
  BY <1>4
<1>6. c \in Seq({c[i] : i \in 1 .. Len(a)})
  BY <1>4
<1> HIDE DEF c, b
<1> SUFFICES ASSUME NEW place \in QemuWrites(c, "clone"), place \in QemuWrites(a, "vm")
             PROVE  FALSE
  BY <1>2
<1>7. PICK f \in Files(c) : OpensAt(c[f[1]]) /\ place = Place("clone", Path(c, f))
  BY OpensIs
<1>8. PICK i \in 1 .. Len(a) : \E key \in KeySet(c[i]) : f = <<i, key>>
  <2>1. \A g : g \in Files(c) <=>
                   \E i \in 1 .. Len(c) : \E key \in KeySet(c[i]) : g = <<i, key>>
    BY <1>6, FilesAre
  <2> QED BY <1>5, <1>7, <2>1
<1>9. PICK key \in KeySet(c[i]) : f = <<i, key>>
  BY <1>8
<1>10. c[i].name \in Opened
  BY <1>7, <1>9 DEF OpensAt, Opened
<1>11. c[i] = b[i] /\ a[i].name \in Opened
  <2>1. b[i].name = a[i].name
    BY <1>3 DEF PlanLines
  <2>2. b[i].name = c[i].name
    BY <1>4, <1>5, AddressName DEF CloneLine
  <2> QED BY <1>5, <1>10, <2>1, <2>2, AddressStays
<1>12. Alike(a[i], c[i])
  BY <1>3, <1>11 DEF PlanLines
<1>13. key \in KeySet(a[i])
  BY <1>9, <1>12 DEF Alike
<1>14. Writes(a, <<i, key>>)
  BY <1>7, <1>9, <1>12, OpenedWrites
<1>15. <<i, key>> \in Files(a)
  <2>1. \A g : g \in Files(a) <=>
                   \E j \in 1 .. Len(a) : \E k \in KeySet(a[j]) : g = <<j, k>>
    BY <1>4, FilesAre
  <2> QED BY <1>13, <2>1
<1>16. Path(c, f) \in p.taken
  <2>1. PICK m \in 1 .. n : FileList(a)[m] = <<i, key>>
    <3>1. FileList(a) \in Seq((1 .. Len(a)) \X (Words5 \cup {""}))
      BY <1>4, ListHolds
    <3>2. DOMAIN FileList(a) = 1 .. n
      BY <3>1, SeqIsFunction
    <3> QED BY <1>15, <3>2 DEF Files, ToSet
  <2>2. Path(b, <<i, key>>) \in p.taken
    BY <1>3, <1>11, <1>14, <2>1 DEF PlacedAll
  <2>3. Path(c, <<i, key>>) = Path(b, <<i, key>>)
    BY <1>11, PathIs
  <2> QED BY <1>9, <2>2, <2>3
<1>17. Path(c, f) \in CopyNames(a) /\ Path(c, f) \notin Paths
  BY <1>3, <1>16, CopyTells
<1>18. place = InFolder("clone", Path(c, f))
  BY <1>7, <1>17 DEF Place, Absolute
<1>19. place \in FilePlaces(a)
  BY OpensIs DEF FilePlaces
<1>20. CopyPlaces(a) \cap FilePlaces(a) = {}
  BY DEF Cloneable
<1> QED BY <1>17, <1>18, <1>19, <1>20 DEF CopyPlaces

(* Nor are the copies put over a file.                                     *)
LEMMA CloneKeepsAll ==
    ASSUME Clone, Cloneable(args["vm"])
    PROVE  AllKept(files, files')
<1> DEFINE a == args["vm"]
           copies == Plan(a, "clone").copies
           p == PlanFold(a, "clone")
<1>1. copies = p.copies /\ DOMAIN p.copies \subseteq CopyPlaces(a)
  <2>1. PlanInv(a, p, Len(FileList(a)))
    BY PlanEnds
  <2>2. PICK b, taken, cs : p = [args |-> b, taken |-> taken, copies |-> cs]
    BY <2>1 DEF PlanInv
  <2>3. Plan(a, "clone") = [p EXCEPT !.args = [i \in DOMAIN @ |-> NewAddress(@[i], i)]]
    BY PlanIs
  <2>4. DOMAIN p.copies \subseteq CopyPlaces(a)
    BY <2>1 DEF PlanInv
  <2> HIDE DEF p
  <2> QED BY <2>2, <2>3, <2>4
<1>2. CopyPlaces(a) \cap DOMAIN files = {}
  BY DEF Cloneable
<1>3. files' = And(copies, files)
  BY DEF Clone
<1> HIDE DEF copies, a
<1>4. \A q \in DOMAIN files : q \in DOMAIN files' /\ files'[q] = files[q]
  BY <1>1, <1>2, <1>3 DEF And
<1> QED BY <1>4 DEF AllKept, Keeps

(* There is no clone of no VM.                                             *)
HasSource == args["clone"] # <<>> => args["vm"] # <<>>

IsArgs == args = [id \in Ids |-> args[id]]

OwnInv == IsArgs /\ HasSource /\ CloneOwns

LEMMA NothingOpened == ASSUME NEW id PROVE QemuWrites(<<>>, id) = {}
<1>1. Files(<<>>) = {}
  <2> DEFINE a == <<>>
  <2>1. a \in Seq({}) /\ 1 .. Len(a) = {}
    OBVIOUS
  <2> HIDE DEF a
  <2>2. \A f : f \in Files(a) <=> \E i \in 1 .. Len(a) : \E key \in KeySet(a[i]) : f = <<i, key>>
    BY <2>1, FilesAre
  <2>3. Files(a) = {}
    BY <2>1, <2>2
  <2> QED BY <2>3 DEF a
<1> QED BY <1>1 DEF QemuWrites

LEMMA InitOwns == Init => OwnInv
<1> SUFFICES ASSUME Init PROVE OwnInv
  OBVIOUS
<1>1. PICK w : args = [id \in Ids |-> IF id = "vm" THEN w ELSE <<>>]
  BY DEF Init
<1>2. args["clone"] = <<>> /\ IsArgs
  BY <1>1 DEF Ids, IsArgs
<1>3. QemuWrites(args["clone"], "clone") = {}
  BY <1>2, NothingOpened
<1> QED BY <1>2, <1>3 DEF OwnInv, HasSource, CloneOwns

LEMMA MakesOwns ==
    ASSUME OwnInv, New \/ (\E script \in Scripts[host] : Import(script))
    PROVE  OwnInv'
<1>1. PICK a : args["vm"] = <<>> /\ args' = [args EXCEPT !["vm"] = a]
  BY DEF New, Create, Import
<1>2. IsArgs /\ args["clone"] = <<>>
  BY <1>1 DEF OwnInv, HasSource
<1>3. IsArgs' /\ args'["clone"] = <<>>
  BY <1>1, <1>2 DEF IsArgs, Ids
<1>4. QemuWrites(args'["clone"], "clone") = {}
  BY <1>3, NothingOpened
<1> QED BY <1>3, <1>4 DEF OwnInv, HasSource, CloneOwns

LEMMA CloneMakesOwns ==
    ASSUME OwnInv, Clone, Cloneable(args["vm"])
    PROVE  OwnInv'
<1> DEFINE a == args["vm"]
           b == Plan(a, "clone").args
<1>1. a # <<>> /\ args' = [args EXCEPT !["clone"] = b]
  BY DEF Clone, Stopped, IsUsed
<1>2. IsArgs
  BY DEF OwnInv
<1> HIDE DEF b
<1>3. IsArgs' /\ args'["vm"] = a /\ args'["clone"] = b
  BY <1>1, <1>2 DEF IsArgs, Ids
<1>4. QemuWrites(b, "clone") \cap QemuWrites(a, "vm") = {}
  BY CloneApart DEF b
<1> QED BY <1>1, <1>3, <1>4 DEF OwnInv, HasSource, CloneOwns

LEMMA NextOwns ==
    ASSUME OwnInv, [Next]_vars, [Clone => Cloneable(args["vm"])]_vars
    PROVE  OwnInv'
<1>1. CASE args' = args
  BY <1>1 DEF OwnInv, IsArgs, HasSource, CloneOwns
<1>2. CASE New \/ (\E script \in Scripts[host] : Import(script))
  BY <1>2, MakesOwns
<1>3. CASE Clone /\ Cloneable(args["vm"])
  BY <1>3, CloneMakesOwns
<1>4. CASE UNCHANGED vars
  BY <1>1, <1>4 DEF vars
<1>5. ASSUME NEW id \in Ids, Start(id) \/ Reset(id) \/ Use(id) \/ ShutDown(id)
                             \/ Harm(id) \/ RemoveFile(id)
      PROVE  args' = args
  BY <1>5 DEF Start, Reset, Use, ShutDown, Harm, RemoveFile
<1>6. Update => args' = args
  BY DEF Update
<1> QED BY <1>1, <1>2, <1>3, <1>4, <1>5, <1>6 DEF Next

-----------------------------------------------------------------------------
(* The theorems.  That what is cloned is Cloneable, and what the lines are *)
(* that a VM is made with, are their hypotheses: TLC checks the first as a *)
(* part of CloneSame, the others as NothingLost and DamageIsTold.          *)

(* Regularity is a matter of how a VM is made: nothing else, a guest, harm *)
(* to a file, a reset that fails halfway, takes it away.                   *)
THEOREM StaysRegular == Spec /\ Regular /\ [][Makes => Regular']_vars => []Regular
<1>1. Init => WholeInv
  BY InitWhole
<1>2. WholeInv /\ Regular /\ [Next]_vars => WholeInv'
  BY NextKeepsWhole
<1>3. WholeInv /\ Regular /\ [Next]_vars /\ [Makes => Regular']_vars => Regular'
  <2> SUFFICES ASSUME WholeInv, Regular, [Next]_vars, [Makes => Regular']_vars
               PROVE  Regular'
    OBVIOUS
  <2>1. CASE UNCHANGED vars
    <3>1. files' = files /\ args' = args /\ harmed' = harmed
      BY <2>1 DEF vars
    <3> QED BY <3>1, RegularThen DEF Regular, AllContents
  <2>2. CASE Makes => Regular'
    BY <2>2, NextKeepsRegular
  <2> QED BY <2>1, <2>2
<1> QED BY <1>1, <1>2, <1>3, PTL DEF Spec

(* Of VMs made with flash lines that name files of their own: one that     *)
(* runs, and was not started anyway, runs with all of its firmware and     *)
(* none of it damaged, whatever failed when it was replaced, and whatever  *)
(* the guest and the updates of the system did since.                      *)
THEOREM RunningIsWhole ==
    Spec /\ Regular /\ [][Makes => Regular']_vars => []RunsWhole
<1>1. Init => WholeInv
  BY InitWhole
<1>2. WholeInv /\ Regular /\ [Next]_vars => WholeInv'
  BY NextKeepsWhole
<1>3. WholeInv => RunsWhole
  BY DEF WholeInv
<1>4. Spec /\ Regular /\ [][Makes => Regular']_vars => []Regular
  BY StaysRegular
<1> QED BY <1>1, <1>2, <1>3, <1>4, PTL DEF Spec

(* Of VMs made with flash lines that name files of their own, in the       *)
(* formats of their templates, which are whole: a firmware copy is called  *)
(* damaged exactly when it lost what it held, however the VM is used and   *)
(* the system updated, whatever is replaced and fails to be.               *)
THEOREM DamageStaysTold ==
    Spec /\ DamageIsTold /\ [][Makes => DamageIsTold']_vars => []DamageIsTold
<1>1. Init => WholeInv
  BY InitWhole
<1>2. WholeInv /\ DamageIsTold /\ [Next]_vars => WholeInv'
  BY NextKeepsWhole DEF DamageIsTold
<1>3. WholeInv /\ DamageIsTold /\ [Next]_vars /\ [Makes => DamageIsTold']_vars => DamageIsTold'
  <2> SUFFICES ASSUME WholeInv, DamageIsTold, [Next]_vars, [Makes => DamageIsTold']_vars
               PROVE  DamageIsTold'
    OBVIOUS
  <2>1. CASE UNCHANGED vars
    <3>1. UNCHANGED <<host, system, args, files, harmed>>
      BY <2>1 DEF vars
    <3>2. Regular'
      BY <3>1, RegularThen DEF DamageIsTold, Regular, AllContents
    <3> QED BY <3>1, <3>2, RestTold
  <2>2. CASE Makes => DamageIsTold'
    BY <2>2, NextTells
  <2> QED BY <2>1, <2>2
<1> QED BY <1>1, <1>2, <1>3, PTL DEF Spec

(* Of VMs made with flash lines that name files of their own, by New and   *)
(* Import without writing over a file: a clone, starting a VM, with new    *)
(* firmware or not, and resetting a file of it lose nothing, whatever      *)
(* fails, and a guest loses nothing but what QEMU opens to write for it.   *)
THEOREM NothingIsLost ==
    /\ Spec /\ Regular
    /\ [][Makes => Regular']_vars
    /\ [][(New \/ \E script \in Scripts[host] : Import(script)) => AllKept(files, files')]_vars
    /\ [][Clone => Cloneable(args["vm"])]_vars
    => NothingLost
<1> DEFINE Kindly == (New \/ \E script \in Scripts[host] : Import(script)) => AllKept(files, files')
           Fitly == Clone => Cloneable(args["vm"])
<1>1. Init => KeptInv
  BY InitWhole DEF Init, KeptInv
<1>2. KeptInv /\ Regular /\ [Next]_vars => KeptInv'
  BY NextKeepsWhole, HarmsCount DEF KeptInv
<1>3. KeptInv /\ Regular /\ [Next]_vars /\ [Kindly]_vars /\ [Fitly]_vars => [KeptUnlessHarmed]_vars
  <2> SUFFICES ASSUME KeptInv, Regular, [Next]_vars, [Kindly]_vars, [Fitly]_vars, ~UNCHANGED vars
               PROVE  KeptUnlessHarmed
    OBVIOUS
  <2>1. Kindly /\ Fitly
    OBVIOUS
  <2> HIDE DEF Kindly, Fitly
  <2>2. Makes => AllKept(files, files')
    BY <2>1, CloneKeepsAll DEF Makes, Kindly, Fitly
  <2> QED BY <2>2, NextKeepsAll DEF KeptInv
<1>4. [KeptUnlessHarmed]_vars =>
          [harms' = harms =>
              \A p \in DOMAIN files \ UNION {QemuWrites(args[id], id) : id \in running} :
                  Keeps(files, files', p)]_vars
  BY DEF KeptUnlessHarmed
<1>5. Spec /\ Regular /\ [][Makes => Regular']_vars => []Regular
  BY StaysRegular
<1> QED BY <1>1, <1>2, <1>3, <1>4, <1>5, PTL DEF Spec, NothingLost

(* Of VMs with a name, whose arguments name no file in the folder of the   *)
(* clone: nothing that QEMU opens to write for one is a file that it       *)
(* writes for the clone, whatever shared and copied files the arguments    *)
(* name, on whichever lines.                                               *)
THEOREM CloneIsItsOwn ==
    Spec /\ [][Clone => Cloneable(args["vm"])]_vars => []CloneOwns
<1>1. OwnInv /\ [Next]_vars /\ [Clone => Cloneable(args["vm"])]_vars => OwnInv'
  BY NextOwns
<1>2. OwnInv => CloneOwns
  BY DEF OwnInv
<1> QED BY <1>1, <1>2, InitOwns, PTL DEF Spec
=============================================================================
