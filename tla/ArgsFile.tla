------------------------------ MODULE ArgsFile ------------------------------
(***************************************************************************)
(* The configuration of a VM as core/argsfile.cpp and core/optionvalue.cpp *)
(* keep it: a sequence of lines, the value of a line being the sequence of *)
(* its items.  An item is a pair of a key and a value; the key of the item *)
(* without one, which QEMU gives a key (-machine q35), is "".  Words are   *)
(* strings that are compared and never taken apart.  Lines are numbered    *)
(* from 1, and 0 stands for the -1 of the code.                            *)
(***************************************************************************)
EXTENDS Integers, SequencesExt, FiniteSetsExt

-----------------------------------------------------------------------------
(* OptionValue                                                             *)

(* The value of an item written without one.                               *)
Bare == "(bare)"

Implied(v) == IF v # <<>> /\ v[1][1] = "" THEN v[1][2] ELSE ""

Has(v, key) == \E i \in DOMAIN v : v[i][1] = key

GetOr(v, key, fallback) ==
    LET i == SelectInSeq(v, LAMBDA item : item[1] = key /\ item[2] # Bare)
    IN  IF i = 0 THEN fallback ELSE v[i][2]

Get(v, key) == GetOr(v, key, "")

Flag(v, key, fallback) ==
    IF Get(v, key) \in {"on", "yes", "true"} THEN TRUE
    ELSE IF Get(v, key) \in {"off", "no", "false"} THEN FALSE ELSE fallback

SetImplied(v, value) ==
    IF v # <<>> /\ v[1][1] = "" THEN [v EXCEPT ![1][2] = value]
    ELSE <<<<"", value>>>> \o v

SetItem(v, key, value) ==
    LET i == SelectInSeq(v, LAMBDA item : item[1] = key)
    IN  IF i = 0 THEN Append(v, <<key, value>>) ELSE [v EXCEPT ![i][2] = value]

RemoveItem(v, key) == SelectSeq(v, LAMBDA item : item[1] # key)

SetOrRemove(v, key, value) ==
    IF value = "" THEN RemoveItem(v, key) ELSE SetItem(v, key, value)

(* setImplied(), or set() of the key the line has instead: -name guest=vm  *)
SetLong(v, key, value) ==
    IF Implied(v) = "" /\ Has(v, key) THEN SetItem(v, key, value)
    ELSE SetImplied(v, value)

GetLong(v, key) == IF Implied(v) = "" THEN Get(v, key) ELSE Implied(v)

-----------------------------------------------------------------------------
(* ArgsFile                                                                *)

Option(name, v) == [kind |-> "Option", name |-> name, val |-> v]
Directive(name, v) == [kind |-> "Directive", name |-> name, val |-> v]
Comment(text) == [kind |-> "Comment", name |-> text, val |-> <<>>]
Blank == [kind |-> "Blank", name |-> "", val |-> <<>>]

(* A line of text: what it begins with, its first word and the rest.       *)
ParseLine(t) ==
    CASE t.lead = "" /\ t.word = "" -> Blank
      [] t.lead = "#" /\ t.word \in {"share", "qemu"} -> Directive(t.word, t.rest)
      [] t.lead = "#" /\ t.word \notin {"share", "qemu"} -> Comment(t.word)
      [] t.lead \in {"-", "--"} -> Option(t.word, t.rest)
      [] OTHER -> Comment(t.word)      \* "# " is put before it

(* Blank lines at the end go, the final newline among them.                *)
Parse(text) ==
    LET lines == [i \in DOMAIN text |-> ParseLine(text[i])]
    IN  SubSeq(lines, 1, SelectLastInSeq(lines, LAMBDA l : l.kind # "Blank"))

ToText(args) ==
    [i \in DOMAIN args |->
        [lead |-> CASE args[i].kind = "Option" -> "-"
                    [] args[i].kind = "Blank" -> ""
                    [] OTHER -> "#",
         word |-> args[i].name, rest |-> args[i].val]]

CanonicalName(name) == IF name = "M" THEN "machine" ELSE name

IndexesOf(args, name) ==
    {i \in DOMAIN args : args[i].kind = "Option" /\ CanonicalName(args[i].name) = name}

DirectivesOf(args, name) ==
    {i \in DOMAIN args : args[i].kind = "Directive" /\ args[i].name = name}

First(indexes) == IF indexes = {} THEN 0 ELSE Min(indexes)
Latest(indexes) == IF indexes = {} THEN 0 ELSE Max(indexes)

IndexOf(args, name) == First(IndexesOf(args, name))
LastIndex(args, name) == Latest(IndexesOf(args, name))

SetValueAt(args, i, v) == [args EXCEPT ![i].val = v]

InOrder(indexes) == SelectSeq([i \in 1..Latest(indexes) |-> i], LAMBDA i : i \in indexes)

RemoveLines(args, indexes) ==
    FoldRight(LAMBDA i, a : RemoveAt(a, i), InOrder(indexes \cap DOMAIN args), args)

InsertLine(args, after, line) ==
    InsertAt(args, IF after = 0 THEN Len(args) + 1 ELSE after + 1, line)

(* After the last line of the same option, else at the end.                *)
Add(args, line) ==
    InsertLine(args, IF line.kind = "Directive" THEN Latest(DirectivesOf(args, line.name))
                     ELSE LastIndex(args, line.name), line)

(* Before the first option: after the comments at the top.                 *)
InsertFirst(args, line) ==
    LET at == SelectInSeq(args, LAMBDA l : l.kind = "Option")
    IN  InsertAt(args, IF at = 0 THEN Len(args) + 1 ELSE at, line)

RemoveAll(args, name) == RemoveLines(args, IndexesOf(args, name))

(* The drivers of the -device lines, and the lines of a set of drivers.    *)
DevicesOf(args, drivers) ==
    {i \in IndexesOf(args, "device") : Implied(args[i].val) \in drivers}
=============================================================================
