------------------------------ MODULE VmConfig ------------------------------
(***************************************************************************)
(* The settings that core/vmconfig.cpp reads from the arguments of a VM    *)
(* and writes back.  Each setter changes the keys the setting owns, and    *)
(* leaves what else is on those lines.                                     *)
(***************************************************************************)
EXTENDS ArgsFile

(* The numbers sizes and processors are written with.                      *)
Numbers == (1..8) \cup {512, 1024, 2048, 3072, 4096}

NumberOf ==
    [text \in {ToString(n) : n \in Numbers} |-> CHOOSE n \in Numbers : ToString(n) = text]

ToInt(text) == IF text \in DOMAIN NumberOf THEN NumberOf[text] ELSE 0

Name(args) ==
    LET i == IndexOf(args, "name")
    IN  IF i = 0 THEN "" ELSE GetLong(args[i].val, "guest")

SetName(args, name) ==
    LET i == IndexOf(args, "name")
    IN  IF i = 0 THEN InsertFirst(args, Option("name", <<<<"", name>>>>))
        ELSE SetValueAt(args, i, SetLong(args[i].val, "guest", name))

(* The home folder, for paths that begin with ~/.                          *)
Expanded(path) == IF path = "~/qemu" THEN "/home/me/qemu" ELSE path

QemuBinary(args) ==
    LET i == First(DirectivesOf(args, "qemu"))
    IN  IF i = 0 THEN "" ELSE Expanded(Implied(args[i].val))

SetQemuBinary(args, path) ==
    LET i  == First(DirectivesOf(args, "qemu"))
        at == SelectInSeq(args, LAMBDA l : l.kind # "Comment")
    IN  IF path = "" THEN RemoveLines(args, {i})
        ELSE IF i # 0 THEN SetValueAt(args, i, <<<<"", path>>>>)
        ELSE InsertAt(args, IF at = 0 THEN Len(args) + 1 ELSE at,
                      Directive("qemu", <<<<"", path>>>>))

-----------------------------------------------------------------------------
(* Memory                                                                  *)

(* parseSize() in MiB; plain is what a number without suffix counts in.    *)
Sizes(suffix, mib) ==
    [text \in {n \o suffix : n \in DOMAIN NumberOf} |->
        mib * NumberOf[CHOOSE n \in DOMAIN NumberOf : n \o suffix = text]]

SizeOf == Sizes("G", 1024) @@ Sizes("M", 1)

ParseMiB(text, plain) ==
    IF text \in DOMAIN SizeOf THEN SizeOf[text]
    ELSE IF text \in DOMAIN NumberOf THEN NumberOf[text] * plain ELSE -1

FormatMiB(mib) ==
    IF mib % 1024 = 0 THEN ToString(mib \div 1024) \o "G" ELSE ToString(mib) \o "M"

(* The last -machine key=, as QEMU merges its -machine options.            *)
MachineKey(args, key) ==
    LET i == Latest({j \in IndexesOf(args, "machine") : Has(args[j].val, key)})
    IN  IF i = 0 THEN "" ELSE Get(args[i].val, key)

MemoryBackends ==
    {"memory-backend-ram", "memory-backend-memfd", "memory-backend-file"}

RamBackend(args) ==
    LET id == MachineKey(args, "memory-backend")
    IN  First({i \in IndexesOf(args, "object") :
                  /\ id # ""
                  /\ Implied(args[i].val) \in MemoryBackends
                  /\ Get(args[i].val, "id") = id})

(* The size of the backend, else that of -m.                               *)
BackendMiB(args, backend) ==
    IF backend = 0 THEN 0 ELSE ParseMiB(Get(args[backend].val, "size"), 0)

PlainMiB(args, m) == IF m = 0 THEN 0 ELSE ParseMiB(GetLong(args[m].val, "size"), 1)

Else(n, other) == IF n > 0 THEN n ELSE other

MemoryMiB(args) ==
    Else(BackendMiB(args, RamBackend(args)), Else(PlainMiB(args, IndexOf(args, "m")), 0))

SizeLine(args, m, text) == SetValueAt(args, m, SetLong(args[m].val, "size", text))

SizeBackend(args, backend, text) ==
    SetValueAt(args, backend, SetItem(args[backend].val, "size", text))

SizeLines(args, backend, m, text) ==
    CASE backend # 0 /\ m # 0 -> SizeLine(SizeBackend(args, backend, text), m, text)
      [] backend # 0 /\ m = 0 -> SizeBackend(args, backend, text)
      [] backend = 0 /\ m # 0 -> SizeLine(args, m, text)
      [] OTHER -> Add(args, Option("m", <<<<"", text>>>>))

SetMemoryMiB(args, mib) ==
    SizeLines(args, RamBackend(args), IndexOf(args, "m"), FormatMiB(mib))

IsShared(v) ==
    \/ Implied(v) = "memory-backend-memfd" /\ Flag(v, "share", TRUE)
    \/ Implied(v) = "memory-backend-file" /\ Flag(v, "share", FALSE)

HasSharedMemory(args) ==
    \E backend \in {RamBackend(args)} \ {0} : IsShared(args[backend].val)

FreeId(args) ==
    LET used == {Get(args[i].val, "id") : i \in IndexesOf(args, "object")}
    IN  CASE "mem" \notin used -> "mem"
          [] "mem" \in used /\ "mem1" \notin used -> "mem1" [] OTHER -> "mem2"

NameBackend(args, machine, id) ==
    IF machine = 0 THEN Add(args, Option("machine", <<<<"memory-backend", id>>>>))
    ELSE SetValueAt(args, machine, SetItem(args[machine].val, "memory-backend", id))

(* A backend of its own, named by -machine, with -m as large.              *)
AddBackend(args, id, mib) ==
    LET object == Add(args, Option("object", << <<"", "memory-backend-memfd">>, <<"id", id>>,
                                       <<"size", FormatMiB(mib)>>, <<"share", "on">> >>))
        named  == NameBackend(object, LastIndex(object, "machine"), id)
    IN  IF IndexOf(args, "m") = 0 THEN named ELSE SetMemoryMiB(named, mib)

ShareBackend(args, backend) ==
    LET old == args[backend].val
    IN  SetValueAt(args, backend,
            SetItem(IF Implied(old) = "memory-backend-ram"
                    THEN SetImplied(old, "memory-backend-memfd") ELSE old, "share", "on"))

UseSharedMemory(args) ==
    IF RamBackend(args) # 0 THEN ShareBackend(args, RamBackend(args))
    ELSE AddBackend(args, FreeId(args), Else(MemoryMiB(args), 1024))

-----------------------------------------------------------------------------
(* Processors                                                              *)

CpusOf(given, n, model) ==
    [count |-> Else(given, Else(n[1], 1) * Else(n[2], 1) * Else(n[3], 1)),
     sockets |-> n[1], cores |-> n[2], threads |-> n[3], model |-> model]

ReadCpus(v, model) ==
    LET keys == <<"sockets", "cores", "threads">>
    IN  CpusOf(ToInt(GetLong(v, "cpus")), [i \in 1..3 |-> ToInt(Get(v, keys[i]))], model)

ValueOf(args, i) == IF i = 0 THEN <<>> ELSE args[i].val

Cpus(args) ==
    ReadCpus(ValueOf(args, IndexOf(args, "smp")),
             Implied(ValueOf(args, IndexOf(args, "cpu"))))

(* Not the code: the line of the model stays when the model is emptied.    *)
CpusKeepModel(args, c) ==
    LET smp == IndexOf(args, "smp")
    IN  IF smp = 0 THEN args
        ELSE SetValueAt(args, smp, SetLong(args[smp].val, "cpus", ToString(c.count)))

SmpValue(v, c) ==
    LET Number(n) == IF n = 0 THEN "" ELSE ToString(n)
    IN  SetOrRemove(SetOrRemove(SetOrRemove(SetLong(v, "cpus", ToString(c.count)),
            "sockets", Number(c.sockets)), "cores", Number(c.cores)),
            "threads", Number(c.threads))

SetSmp(args, smp, c) == SetValueAt(args, smp, SmpValue(args[smp].val, c))

SetModel(args, cpu, model) ==
    IF model = "" THEN RemoveAll(args, "cpu")
    ELSE IF cpu = 0 THEN Add(args, Option("cpu", <<<<"", model>>>>))
    ELSE SetValueAt(args, cpu, SetImplied(args[cpu].val, model))

SetCpus(args, c) ==
    LET before == IF IndexOf(args, "smp") = 0 THEN Add(args, Option("smp", <<>>)) ELSE args
    IN  SetModel(SetSmp(before, IndexOf(before, "smp"), c), IndexOf(args, "cpu"), c.model)

EnableCpuFeature(args, feature) ==
    LET i == IndexOf(args, "cpu")
        Mentions(item) == (IF item[1] = "" THEN item[2] ELSE item[1])
                              \in {feature, "+" \o feature, "-" \o feature}
    IN  IF i = 0 \/ \E n \in DOMAIN args[i].val : Mentions(args[i].val[n]) THEN args
        ELSE SetValueAt(args, i, SetItem(args[i].val, feature, "on"))

-----------------------------------------------------------------------------
(* Shared folders and the devices of the host                              *)

Share(v) == [tag |-> Get(v, "tag"), path |-> Get(v, "path"),
             cache |-> GetOr(v, "cache", "auto"), readonly |-> Flag(v, "readonly", FALSE),
             mount |-> Get(v, "mount")]

Shares(args) ==
    LET old == InOrder(DirectivesOf(args, "share"))
    IN  [i \in DOMAIN old |-> Share(args[old[i]].val)]

ShareValue(v, s) ==
    SetOrRemove(SetOrRemove(SetOrRemove(SetItem(SetItem(v,
        "tag", s.tag), "path", s.path),
        "cache", IF s.cache = "auto" THEN "" ELSE s.cache),
        "readonly", IF s.readonly THEN "on" ELSE ""), "mount", s.mount)

(* Directives keep their place and their other keys; those left over go.   *)
SetShares(args, shares) ==
    LET old   == InOrder(DirectivesOf(args, "share"))
        kept  == FoldSet(LAMBDA n, a : SetValueAt(a, old[n], ShareValue(a[old[n]].val, shares[n])),
                         args, DOMAIN old \cap DOMAIN shares)
        fewer == RemoveLines(kept, {old[n] : n \in DOMAIN old \ DOMAIN shares})
    IN  FoldLeft(LAMBDA a, s : Add(a, Directive("share", ShareValue(<<>>, s))), fewer,
                 SubSeq(shares, Len(old) + 1, Len(shares)))

FullPciAddress(address) == IF address = "03:00.0" THEN "0000:03:00.0" ELSE address

(* A passed-through device is a line with a driver and keys that name it.  *)
PciId(v) == IF Implied(v) = "vfio-pci" /\ Has(v, "host")
            THEN FullPciAddress(Get(v, "host")) ELSE ""

UsbId(v) == IF Implied(v) = "usb-host" /\ Has(v, "vendorid") /\ Has(v, "productid")
            THEN Get(v, "vendorid") \o ":" \o Get(v, "productid") ELSE ""

Passthrough(args, Id(_)) ==
    LET lines == InOrder({i \in IndexesOf(args, "device") : Id(args[i].val) # ""})
    IN  [n \in DOMAIN lines |-> Id(args[lines[n]].val)]

SetPassthrough(args, ids, Id(_), Value(_)) ==
    LET lines   == {i \in IndexesOf(args, "device") : Id(args[i].val) # ""}
        there   == {Id(args[i].val) : i \in lines}
        missing == SelectSeq(ids, LAMBDA id : id \notin there)
    IN  FoldLeft(LAMBDA a, id : Add(a, Option("device", Value(id))),
                 RemoveLines(args, {i \in lines : Id(args[i].val) \notin ToSet(ids)}), missing)

PciValue(address) == << <<"", "vfio-pci">>, <<"host", address>> >>

(* The ids of the model are those of one vendor.                           *)
UsbValue(id) == << <<"", "usb-host">>, <<"vendorid", "0x1">>,
                   <<"productid", IF id = "0x1:0x1" THEN "0x1" ELSE "0x2">> >>

HasUsbController(args) ==
    \/ IndexOf(args, "usb") # 0
    \/ MachineKey(args, "usb") = "on"
    \/ DevicesOf(args, {"qemu-xhci", "nec-usb-xhci", "usb-ehci", "pci-ohci"}) # {}

PciPassthrough(args) == Passthrough(args, PciId)
SetPciPassthrough(args, addresses) == SetPassthrough(args, addresses, PciId, PciValue)
UsbPassthrough(args) == Passthrough(args, UsbId)
SetUsbPassthrough(args, ids) == SetPassthrough(args, ids, UsbId, UsbValue)

-----------------------------------------------------------------------------
(* The files the arguments read, by line and key ("" for the whole value)  *)

(* Those whose whole value is a file.                                      *)
FileOptions == {"hda", "hdb", "cdrom", "bios", "kernel", "pflash"}

NamesFile(l, key) == Get(l.val, key) \notin {"", "no"} /\ (l.name = "object" => key = "mem-path")

KeysOf(l) ==
    LET Key(key) == IF NamesFile(l, key) THEN <<key>> ELSE <<>>
    IN  IF \/ l.kind # "Option" \/ l.val = <<>>
           \/ l.name \in {"chardev", "serial", "audiodev", "trace", "pidfile"} THEN <<>>
        ELSE IF l.name \in FileOptions THEN <<"">>
        ELSE Key("file") \o Key("filename") \o Key("path") \o Key("mem-path") \o Key("script")

FileList(args) ==
    LET OnLine(i, keys) == [n \in DOMAIN keys |-> <<i, keys[n]>>]
    IN  FlattenSeq([i \in DOMAIN args |-> OnLine(i, KeysOf(args[i]))])

Files(args) == ToSet(FileList(args))

Path(args, file) ==
    IF file[2] = "" THEN Implied(args[file[1]].val) ELSE Get(args[file[1]].val, file[2])

SetFile(args, file, path) ==
    SetValueAt(args, file[1],
        IF file[2] = "" THEN <<<<"", path>>>> ELSE SetItem(args[file[1]].val, file[2], path))
=============================================================================
