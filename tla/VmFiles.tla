------------------------------- MODULE VmFiles ------------------------------
(***************************************************************************)
(* What a VM has in its folder: the arguments and files it is made with by *)
(* NewVmDialog and VmTemplate, or imported with by Importer, the firmware  *)
(* copies that FirmwareFiles and FirmwareRepair check, make again and      *)
(* replace, and what VmCloner copies and shares.                           *)
(*                                                                         *)
(* The state of a file is what the code looks at: its format, its size,    *)
(* its head, whether its qcow2 tables hold, its snapshots, and whose data  *)
(* it is.  Paths are strings: a name in the folder of a VM, or absolute.   *)
(***************************************************************************)
EXTENDS VmHardware

CONSTANTS
    Hosts,      \* the architectures of computers, of Firmwares too (arch,
                \* and order, that of their descriptors)
    Templates,  \* the files of these, by name
    Outside,    \* the name of each file that is in no folder of a VM,
    AtFirst,    \* those there are at first
    Names,      \* the names files have in one, without numbers, and
    Qcow2Names, \* those that end in .qcow2
    Memory,     \* MiB and processors of the computer
    Processors,
    Options,    \* bounds: what is chosen in NewVmDialog,
    GoOn,       \* the choices whose VM is used,
    Scripts,    \* what is imported on each computer, and
    Written,    \* the VMs written by hand for it, with their files
    Failing,    \* which steps of a reset fail together
    MaxHarms, MaxResets,
    MaxBackups  \* of one file

ASSUME VmFilesAssumption ==
    /\ {Memory, Processors, MaxHarms, MaxResets, MaxBackups} \subseteq Nat
    /\ GoOn \subseteq Options

VARIABLES
    host,       \* the architecture of this computer
    system,     \* the templates it has: a file by its name
    args,       \* the vm.args of each VM; none if there is no such VM
    files,      \* the files: by their absolute path
    running,    \* the VMs that run, and those of them that were started
    anyway,     \* with damaged firmware
    made,       \* what the last new VM was to be: a set of one or none
    harmed,     \* the places of files that lost what they held
    harms, resets

vars == <<host, system, args, files, running, anyway, made, harmed, harms, resets>>

Ids == {"vm", "clone"}

IsFormat(fmt) == fmt \in {"raw", "qcow2"}

IsContent(c) ==
    /\ c = [fmt |-> c.fmt, size |-> c.size, head |-> c.head, tables |-> c.tables,
            snaps |-> c.snaps, data |-> c.data]
    /\ IsFormat(c.fmt)

One(value) == <<<<"", value>>>>

(* Not the code: a name is not looked for among those taken.               *)
AnyName(name, taken) == name

(* The second of a name; the number comes before the suffix.               *)
Numbered(name, n) == IF n = 1 THEN name ELSE name \o "-" \o ToString(n)
FreeName(name, taken) == Numbered(name, Min({n \in 1..9 : Numbered(name, n) \notin taken}))

AllNames == Names \cup {Numbered(name, 2) : name \in Names}

InFolder(id, name) == "/vms/" \o id \o "/" \o name
Folders == [id \in Ids |-> {InFolder(id, name) : name \in AllNames}]
Paths == DOMAIN Outside \cup UNION {Folders[id] : id \in Ids}
NameAt == [path \in Paths |->
    IF path \in DOMAIN Outside THEN Outside[path]
    ELSE CHOOSE name \in AllNames : \E id \in Ids : path = InFolder(id, name)]

Absolute(path) == path \in Paths
Place(id, path) == IF Absolute(path) THEN path ELSE InFolder(id, path)
Inside(id, path) == ~Absolute(path) \/ path \in Folders[id]
FileName(path) == IF Absolute(path) THEN NameAt[path] ELSE path

ASSUME FoldersAssumption == Folders["vm"] \cap Folders["clone"] = {}

(* The time in its name is a number here.                                  *)
BackupName(place, n) == place \o "." \o ToString(n) \o ".bak"

ASSUME BackupAssumption ==
    \A p \in Paths, n \in 1..MaxBackups :
        /\ BackupName(p, n) \notin Paths
        /\ \A q \in Paths, m \in 1..MaxBackups :
               BackupName(p, n) = BackupName(q, m) => p = q /\ n = m

Put(d, place, file) == [p \in DOMAIN d \cup {place} |-> IF p = place THEN file ELSE d[p]]
And(d, fresh) == [p \in DOMAIN d \cup DOMAIN fresh |-> IF p \in DOMAIN d THEN d[p] ELSE fresh[p]]
Without(d, place) == [p \in DOMAIN d \ {place} |-> d[p]]

-----------------------------------------------------------------------------
(* FirmwareFiles                                                           *)

FlashLines(a) ==
    FlashDrives(a) \cup {i \in DOMAIN a : a[i].kind = "Option" /\ a[i].name = "pflash"}

FlashPath(a, i) == IF a[i].name = "drive" THEN Get(a[i].val, "file") ELSE Implied(a[i].val)

(* Without unit=, the one after that of the line before.                   *)
Unit(a, lines, i) ==
    LET told == Latest({j \in lines : j <= i /\ a[j].name = "drive" /\ Has(a[j].val, "unit")})
        since == Cardinality({j \in lines : told < j /\ j <= i})
    IN  IF told = 0 THEN since - 1 ELSE ToInt(Get(a[told].val, "unit")) + since

ToldFormat(a, i) == IF a[i].name = "drive" THEN Get(a[i].val, "format") ELSE ""

FormatOf(d, a, i, place) ==
    LET told == ToldFormat(a, i)
    IN  CASE told # "" -> told
          [] told = "" /\ place \in DOMAIN d -> d[place].fmt
          [] OTHER -> IF FlashPath(a, i) \in Qcow2Names THEN "qcow2" ELSE "raw"

(* How well a template fits: 0 is not at all.                              *)
Rank(file, fw, codeName) ==
    LET vars_ == fw.vars = file.name
        code  == codeName # "" /\ fw.code = codeName
    IN  CASE file.role = "Code" -> IF fw.code = file.name THEN 3 ELSE 0
          [] file.role = "Vars" /\ vars_ /\ code -> 3
          [] file.role = "Vars" /\ vars_ /\ ~code -> 2
          [] OTHER -> IF code /\ fw.format = file.format THEN 1 ELSE 0

TemplateName(file, fw) == IF file.role = "Code" THEN fw.code ELSE fw.vars

(* The first of the best descriptors.                                      *)
TemplateOf(sys, file, codeName) ==
    LET fit  == {fw \in Firmwares : /\ fw.arch = host /\ Rank(file, fw, codeName) > 0
                                    /\ TemplateName(file, fw) \in DOMAIN sys}
        best == {fw \in fit : \A other \in fit :
                     Rank(file, other, codeName) <= Rank(file, fw, codeName)}
    IN  IF fit = {} THEN ""
        ELSE TemplateName(file, CHOOSE fw \in best : \A other \in best : fw.order <= other.order)

(* FirmwareFiles::list, of the arguments a and the files d: what is in the *)
(* folder of the VM, and then the templates.                               *)
FlashIn(id, a) == {i \in FlashLines(a) : FlashPath(a, i) # "" /\ Inside(id, FlashPath(a, i))}

FlashPlace(id, a, i) == Place(id, FlashPath(a, i))

FlashFile(d, id, a, i) ==
    LET place == FlashPlace(id, a, i)
    IN  [role |-> IF Unit(a, FlashLines(a), i) = 0 THEN "Code" ELSE "Vars",
         name |-> FileName(place), place |-> place, format |-> FormatOf(d, a, i, place)]

FlashFiles(d, id, a) == {FlashFile(d, id, a, i) : i \in FlashIn(id, a)}

CodeName(a) ==
    LET lines == FlashLines(a)
        code  == Latest({i \in lines : FlashPath(a, i) # "" /\ Unit(a, lines, i) = 0})
    IN  IF code = 0 THEN "" ELSE FileName(FlashPath(a, code))

WithTemplate(sys, f, codeName) ==
    [role |-> f.role, place |-> f.place, format |-> f.format,
     template |-> TemplateOf(sys, f, codeName)]

Entry(sys, d, id, a, i) == WithTemplate(sys, FlashFile(d, id, a, i), CodeName(a))

FirmwareList(sys, d, id, a) == {Entry(sys, d, id, a, i) : i \in FlashIn(id, a)}

(* The templates are what their descriptors say of them.                   *)
ASSUME TemplatesAssumption ==
    /\ \A name \in DOMAIN Templates : IsContent(Templates[name])
    /\ \A fw \in Firmwares :
           /\ fw.order \in Nat
           /\ fw.vars \in DOMAIN Templates =>
                 /\ Templates[fw.vars].fmt = fw.format
                 /\ Templates[fw.vars].head \notin {"code", "newer code"}

Image(problem, size, head) == [problem |-> problem, size |-> size, head |-> head]
Bad(problem) == Image(problem, "", "")

ReadQcow2(c) ==
    CASE c.fmt # "qcow2" -> Bad("not a qcow2 image")
      [] c.fmt = "qcow2" /\ c.tables = "bad" -> Bad("cut short, or marked as corrupt")
      [] OTHER -> Image("", c.size, c.head)

(* QEMU would hand the guest the header of a qcow2 image used as raw.      *)
Inspect(c, format) ==
    CASE format = "qcow2" \/ (format = "" /\ c.fmt = "qcow2") -> ReadQcow2(c)
      [] format = "raw" /\ c.fmt = "qcow2" -> Bad("a qcow2 image used as raw")
      [] OTHER -> Image("", c.size, c.head)

(* The header of a firmware volume, if there is one that holds.            *)
Volume(head) == IF head \in {"code", "newer code", "vars"} THEN head ELSE ""

(* Not the code: the size is enough.                                       *)
ProblemBySize(sys, d, f) ==
    IF f.place \notin DOMAIN d THEN "missing"
    ELSE IF d[f.place].size = "none" THEN "empty"
    ELSE Inspect(d[f.place], f.format).problem

Problem(sys, d, f) ==
    LET c     == d[f.place]
        copy  == Inspect(c, f.format)
        model == Inspect(sys[f.template], "")
        found == Volume(copy.head)
        expected == Volume(model.head)
    IN  CASE f.place \notin DOMAIN d -> "missing"
          [] f.place \in DOMAIN d /\ c.size = "none" -> "empty"
          [] OTHER ->
             IF copy.problem # "" \/ f.template = "" THEN copy.problem
             ELSE IF model.problem # "" THEN ""
             ELSE IF copy.size # model.size THEN "of the wrong size"
             ELSE IF \/ expected = ""
                     \/ f.role = "Vars" /\ (found = expected \/ copy.head = "blank")
                     \/ f.role = "Code" /\ found # "" THEN ""
             ELSE "damaged"

SnapshotCount(c) == IF c.fmt = "qcow2" /\ c.size # "none" /\ c.snaps THEN 1 ELSE 0

Result(ok, d) == [ok |-> ok, files |-> d]

(* The steps in fails do not work.  QFile::copy does not replace a file.   *)
CopyTemplate(sys, d, f, fails) ==
    IF f.template = "" \/ "copy" \in fails \/ f.place \in DOMAIN d THEN Result(FALSE, d)
    ELSE Result(TRUE, Put(d, f.place, sys[f.template]))

FreeNumbers(d, place) == {n \in 1..MaxBackups : BackupName(place, n) \notin DOMAIN d}
BackupOf(d, place) == BackupName(place, Min(FreeNumbers(d, place)))

(* qemu-img convert -n: the template written into the file.                *)
Converts(old, model, fails) ==
    "convert" \notin fails /\ old.tables = "whole" /\ old.size = model.size

(* Not the code: what cannot be converted goes before there is a copy.     *)
ResetInPlace(sys, d, f, fails) ==
    IF f.place \notin DOMAIN d \/ f.template = "" THEN CopyTemplate(sys, d, f, fails)
    ELSE CopyTemplate(sys, Without(d, f.place), f, fails)

ResetFile(sys, d, f, fails) ==
    LET old    == d[f.place]
        model  == sys[f.template]
        saved  == BackupOf(d, f.place)
        backed == Put(d, saved, old)
        copied == CopyTemplate(sys, Without(backed, f.place), f, fails)
        \* the old one back rather than none
        undone == IF "restore" \in fails THEN Without(backed, f.place) ELSE d
        writes == f.format = "qcow2" /\ SnapshotCount(old) > 0 /\ "back up" \notin fails
    IN  CASE f.place \notin DOMAIN d \/ f.template = "" -> CopyTemplate(sys, d, f, fails)
          [] f.place \in DOMAIN d /\ f.template # "" /\ writes ->
               IF Converts(old, model, fails)
               THEN Result(TRUE, Put(backed, f.place, [old EXCEPT !.head = model.head,
                                                                  !.data = model.data]))
               ELSE IF "remove" \in fails
               THEN Result(FALSE, Put(backed, f.place, [old EXCEPT !.data = "half"]))
               ELSE IF copied.ok THEN copied ELSE Result(FALSE, undone)
          [] OTHER ->
               IF "rename" \in fails THEN Result(FALSE, d)
               ELSE IF copied.ok THEN copied ELSE Result(FALSE, undone)

(* Not the code: what fails is not counted.                                *)
ReplaceAnyhow(sys, d, list, fails) ==
    FoldSet(LAMBDA f, done : Result(TRUE, ResetFile(sys, done.files, f, fails).files),
            Result(TRUE, d), list)

(* FirmwareRepair::replace                                                 *)
Replace(sys, d, list, fails) ==
    FoldSet(LAMBDA f, done :
                LET one == ResetFile(sys, done.files, f, fails)
                IN  Result(done.ok /\ one.ok, one.files),
            Result(TRUE, d), list)

-----------------------------------------------------------------------------
(* VmTemplate and NewVmDialog                                              *)

Defaults(os) ==
    CASE os = "Linux" -> [memory |-> 4096, cpus |-> 4, firmware |-> "Uefi", graphics |-> "Accelerated"]
      [] os = "Windows11" -> [memory |-> 8192, cpus |-> 4, firmware |-> "UefiSecureBoot",
                              graphics |-> "Standard"]
      [] os = "Windows" -> [memory |-> 4096, cpus |-> 2, firmware |-> "Uefi", graphics |-> "Standard"]
      [] OTHER -> [memory |-> 2048, cpus |-> 2, firmware |-> "Uefi", graphics |-> "Compatible"]

IsArm == host = "aarch64"

(* "default" stands for what applyDefaults chooses: of memory and          *)
(* processors at most half, and nothing the machine does not have.         *)
ApplyDefaults(o) ==
    LET d == Defaults(o.os) IN
    [o EXCEPT !.memory   = IF @ = 0 THEN Min({d.memory, Max({Memory \div 2, 1024})}) ELSE @,
              !.cpus     = IF @ = 0 THEN Min({d.cpus, Max({Processors \div 2, 1})}) ELSE @,
              !.firmware = IF @ = "default" THEN d.firmware ELSE @,
              !.graphics = CASE @ = "default" /\ ~(IsArm /\ d.graphics = "Compatible") -> d.graphics
                             [] @ = "default" /\ IsArm /\ d.graphics = "Compatible" -> "Standard"
                             [] OTHER -> @]

(* What the dialog has to choose from on this computer.                    *)
CanChoose(o) ==
    /\ IsArm => o.firmware # "Bios" /\ o.graphics # "Compatible"
    /\ o.native => o.graphics = "Accelerated"

(* Not the code: virt has VGA.                                             *)
DisplayOfPc(o) ==
    CASE o.graphics = "Accelerated" -> "virtio-vga-gl"
      [] o.graphics = "Compatible" -> "VGA" [] OTHER -> "virtio-vga"

Display(o) ==
    CASE o.graphics = "Accelerated" -> IF IsArm THEN "virtio-gpu-gl-pci" ELSE "virtio-vga-gl"
      [] o.graphics = "Compatible" /\ ~IsArm -> "VGA"
      [] OTHER -> IF IsArm THEN "virtio-gpu-pci" ELSE "virtio-vga"

StorageOf(o, virtio) ==
    LET disk == << <<"file", o.disk>>, <<"if", IF virtio THEN "virtio" ELSE "ide">>,
                   <<"discard", "unmap">> >>
        iso  == << <<"file", o.iso>>, <<"media", "cdrom">>, <<"readonly", "on">> >>
    IN  (IF o.disk = "" THEN <<>> ELSE <<Option("drive", disk)>>)
        \o (CASE o.iso = "" -> <<>>
              [] o.iso # "" /\ IsArm ->
                   << Option("device", << <<"", "virtio-scsi-pci">>, <<"id", "scsi0">> >>),
                      Option("drive", iso \o << <<"if", "none">>, <<"id", "cd0">> >>),
                      Option("device", << <<"", "scsi-cd">>, <<"drive", "cd0">>,
                                          <<"bus", "scsi0.0">> >>) >>
              [] OTHER -> <<Option("drive", iso)>>)

(* build(); the comments are left out.  firmware: a set of one or none.    *)
Build(o, firmware) ==
    LET windows == o.os \in {"Windows11", "Windows"}
        virtio  == o.os = "Linux" \/ IsArm
        Device(v) == Option("device", v)
        system0 == <<
            Option("name", One("vm")),
            Option("machine", (IF IsArm THEN << <<"", "virt">>, <<"gic-version", "max">> >>
                               ELSE One("q35")) \o <<<<"memory-backend", "mem">>>>),
            Option("accel", One("kvm")),
            Option("cpu", IF windows /\ ~IsArm THEN << <<"", "host">>, <<"hv-time", Bare>> >>
                          ELSE One("host")),
            Option("smp", One(ToString(o.cpus))),
            Option("object", << <<"", "memory-backend-memfd">>, <<"id", "mem">>,
                                <<"size", FormatMiB(o.memory)>>, <<"share", "on">> >>) >>
            \o (IF windows THEN <<Option("rtc", <<<<"base", "localtime">>>>)>> ELSE <<>>)
        booting == IF firmware = {} THEN system0
                   ELSE ApplyFirmware(system0, CHOOSE fw \in firmware : TRUE)
        display == booting \o <<Device(One(Display(o))),
                                Option("display", << <<"", "sdl">>, <<"gl", "on">> >>)>>
        context == IF o.native THEN SetGraphics(display, [Graphics(display) EXCEPT !.native = TRUE])
                   ELSE display
    IN  context \o StorageOf(o, virtio) \o <<
            Option("netdev", << <<"", "user">>, <<"id", "net0">> >>),
            Device(<< <<"", IF virtio THEN "virtio-net-pci" ELSE "e1000e">>, <<"netdev", "net0">> >>),
            Option("audiodev", << <<"", "pipewire">>, <<"id", "audio0">> >>) >>
        \o (IF IsArm THEN <<Device(<< <<"", "virtio-sound-pci">>, <<"audiodev", "audio0">> >>)>>
            ELSE <<Device(One("ich9-intel-hda")),
                   Device(<< <<"", "hda-duplex">>, <<"audiodev", "audio0">> >>)>>)
        \o <<Device(One("qemu-xhci"))>> \o (IF IsArm THEN <<Device(One("usb-kbd"))>> ELSE <<>>)
        \o << Device(One("usb-tablet")), Device(One("virtio-serial-pci")),
              Option("chardev", << <<"", "qemu-vdagent">>, <<"id", "vdagent0">> >>),
              Device(<< <<"", "virtserialport">>, <<"chardev", "vdagent0">> >>) >>

(* FirmwareDb::find, and what is found without: a set of one or none.      *)
Chosen(o) ==
    LET machine == IF IsArm THEN "virt" ELSE "q35"
        Found(secure) == FindFirmware(secure, machine)
        fit == CASE o.firmware = "Bios" -> {}
                 [] o.firmware = "UefiSecureBoot" /\ Found(TRUE) # {} -> Found(TRUE)
                 [] OTHER -> Found(FALSE)
    IN  {fw \in fit : \A other \in fit : fw.order <= other.order}

(* The copies of FirmwareDb::apply; the first stays when the second fails. *)
CopiedFirmware(fw, fails) ==
    LET Copy(d, name) == Put(d, InFolder("vm", name), system[name])
        code == "code" \notin fails /\ fw.code \in DOMAIN system
        both == code /\ "vars" \notin fails /\ fw.vars \in DOMAIN system
    IN  Result(both, IF both THEN Copy(Copy(files, fw.code), fw.vars)
                     ELSE IF code THEN Copy(files, fw.code) ELSE files)

NewDisk == [fmt |-> "qcow2", size |-> "disk", head |-> "blank", tables |-> "whole",
            snaps |-> FALSE, data |-> "new"]

(* Where the disk or the arguments cannot be written nothing stays: the    *)
(* folder goes again.                                                      *)
Create(choice, fails) ==
    LET o        == ApplyDefaults(choice)
        firmware == Chosen(o)
        copied   == IF firmware = {} THEN Result(FALSE, files)
                    ELSE CopiedFirmware(CHOOSE fw \in firmware : TRUE, fails)
    IN  /\ CanChoose(o)
        /\ args' = [args EXCEPT !["vm"] = Build(o, IF copied.ok THEN firmware ELSE {})]
        /\ files' = IF o.disk # "disk.qcow2" THEN copied.files
                    ELSE Put(copied.files, InFolder("vm", o.disk), NewDisk)
        /\ made' = {[asked |-> o, fails |-> fails]}
        /\ UNCHANGED <<host, system, running, anyway, harmed, harms, resets>>

-----------------------------------------------------------------------------
(* Importer                                                                *)

(* A word that is no option is a disk; the manager runs QEMU itself.       *)
ImportLines(words) ==
    LET Read(w) == IF w.dash = "" THEN Option("hda", One(w.word)) ELSE Option(w.word, w.rest)
    IN  SelectSeq([i \in DOMAIN words |-> Read(words[i])],
                  LAMBDA l : l.name \notin {"daemonize", "pidfile"})

(* base: the paths relative ones stand for, from where the script runs.    *)
ImportScript(script) ==
    LET lines   == ImportLines(script.words)
        own     == IF script.qemu = "" THEN lines ELSE SetQemuBinary(lines, script.qemu)
        context == IF /\ Graphics(own).native /\ Accel(own) = "kvm"
                      /\ AccelProperty(own, "honor-guest-pat") = ""
                   THEN SetAccelProperty(own, "honor-guest-pat", "on") ELSE own
        Told(a, file) ==
            LET path == Path(context, file)
            IN  IF path \in DOMAIN script.base /\ script.base[path] \in DOMAIN files
                THEN SetFile(a, file, script.base[path]) ELSE a
    IN  FoldLeft(Told, context, FileList(context))

IsFirmware(l) ==
    \/ l.name \in {"bios", "pflash"}
    \/ l.name = "drive" /\ Get(l.val, "if") = "pflash"

(* FirmwareDb::copyIntoVm                                                  *)
CopyIntoVm(a) ==
    LET In(d) == {name \in AllNames : InFolder("vm", name) \in DOMAIN d}
        Copied(done, file) ==
            LET path == Path(a, file)
                name == FreeName(FileName(path), In(done.files))
            IN  IF ~(IsFirmware(a[file[1]]) /\ path \in DOMAIN Outside \cap DOMAIN files) THEN done
                ELSE [args  |-> SetFile(done.args, file, name),
                      files |-> Put(done.files, InFolder("vm", name), files[path])]
    IN  FoldLeft(Copied, [args |-> a, files |-> files], FileList(a))

(* ImportDialog::accept; one that fails leaves no VM.                      *)
Import(script) ==
    LET done == CopyIntoVm(SetName(ImportScript(script), "vm")) IN
    /\ args["vm"] = <<>>
    /\ args' = [args EXCEPT !["vm"] = done.args]
    /\ files' = done.files
    /\ UNCHANGED <<host, system, running, anyway, made, harmed, harms, resets>>

-----------------------------------------------------------------------------
(* A VM that is used                                                       *)

(* Bounds: of what is made in NewVmDialog, the VMs in GoOn; and a VM only  *)
(* until it is cloned.                                                     *)
IsUsed(id) ==
    /\ args[id] # <<>> /\ (id = "vm" => args["clone"] = <<>>)
    /\ \A m \in made : \E o \in GoOn : ApplyDefaults(o) = m.asked
Stopped(id) == IsUsed(id) /\ id \notin running

Firmware(id) == FirmwareList(system, files, id, args[id])
Damaged(id) == {f \in Firmware(id) : /\ f.place \in DOMAIN files /\ f.template # ""
                                     /\ Problem(system, files, f) # ""}

(* A file that is another than before has lost nothing.                    *)
StillHarmed == {p \in harmed : p \in DOMAIN files' /\ files'[p] = files[p]}

(* What QEMU opens to write, by its own rules, and whether it starts.      *)
QemuWrites(a, id) ==
    {Place(id, Path(a, file)) : file \in {f \in Files(a) :
        LET l == a[f[1]] IN
        \/ l.name \in HardDisks \cup {"pflash"}
        \/ l.name = "drive" /\ ~Flag(l.val, "readonly", FALSE) /\ Get(l.val, "media") # "cdrom"
        \/ l.name = "blockdev" /\ ~Flag(l.val, "read-only", FALSE)}}

QemuTakes(d, id) ==
    \A f \in FlashFiles(d, id, args[id]) :
        f.place \in DOMAIN d /\ d[f.place].size # "none" /\ Inspect(d[f.place], f.format).problem = ""

(* The missing copies that VmRunner::start makes again.                    *)
Remade(id, d) ==
    LET missing == {f \in FirmwareList(system, d, id, args[id]) :
                        f.place \notin DOMAIN d /\ f.template # ""}
    IN  And(d, [place \in {f.place : f \in missing} |->
                   system[(CHOOSE f \in missing : f.place = place).template]])

Begins(id, d, with) ==
    /\ files' = Remade(id, d)
    /\ running' = IF QemuTakes(files', id) THEN running \cup {id} ELSE running
    /\ anyway' = IF with # {} /\ id \in running' THEN anyway \cup {id} ELSE anyway

(* Bound: there is a number for one more backup.                           *)
HasRoom(list) == \A f \in list : FreeNumbers(files, f.place) # {}

(* VmPane asks FirmwareRepair::checkBeforeStart first: to start as it is,  *)
(* or with new copies if they can all be put in place.                     *)
Start(id) ==
    LET damaged == Damaged(id) IN
    /\ Stopped(id)
    /\ \/ Begins(id, files, damaged) /\ UNCHANGED resets
       \/ /\ damaged # {}
          /\ resets < MaxResets /\ HasRoom(damaged)
          /\ resets' = resets + 1
          /\ \E fails \in Failing :
               LET done == Replace(system, files, damaged, fails)
               IN  IF done.ok THEN Begins(id, done.files, {})
                   ELSE files' = done.files /\ UNCHANGED <<running, anyway>>
    /\ harmed' = StillHarmed
    /\ UNCHANGED <<host, system, args, made, harms>>

(* The variable store on the System page, or a file that QEMU named when   *)
(* it did not start.                                                       *)
Reset(id) ==
    /\ Stopped(id)
    /\ resets < MaxResets
    /\ resets' = resets + 1
    /\ \E f \in Firmware(id) :
        /\ f.template # ""
        /\ f.role = "Vars" \/ ~QemuTakes(files, id)
        /\ HasRoom({f})
        /\ \E fails \in Failing : files' = ResetFile(system, files, f, fails).files
        /\ harmed' = StillHarmed
        /\ UNCHANGED <<host, system, args, running, anyway, made, harms>>

WholeFiles(id) ==
    {p \in QemuWrites(args[id], id) : p \in DOMAIN files \ harmed /\ files[p].data # "half"}

(* The guest writes to its disks and variables, and formats a store that   *)
(* was erased; a snapshot is kept in the qcow2 ones.                       *)
Use(id) ==
    LET written == WholeFiles(id)
        Now(c, snapshot) ==
            [c EXCEPT !.data = id, !.snaps = @ \/ (snapshot /\ c.fmt = "qcow2"),
                      !.head = IF @ = "blank" /\ c.size # "disk" THEN "vars" ELSE @]
    IN  /\ id \in running
        /\ \E snapshot \in BOOLEAN :
             files' = [p \in DOMAIN files |->
                          IF p \in written THEN Now(files[p], snapshot) ELSE files[p]]
        /\ UNCHANGED <<host, system, args, running, anyway, made, harmed, harms, resets>>

ShutDown(id) ==
    /\ id \in running
    /\ running' = running \ {id}
    /\ anyway' = anyway \ {id}
    /\ UNCHANGED <<host, system, args, files, made, harmed, harms, resets>>

(* What becomes of a file: at a power cut, or by hand.                     *)
Ruined(c) ==
    {[c EXCEPT !.size = "none"], [c EXCEPT !.head = "garbage"]} \cup
    (IF c.fmt = "raw" THEN {[c EXCEPT !.size = "less"]}
     ELSE {[c EXCEPT !.tables = "bad"], [c EXCEPT !.fmt = "raw", !.head = "garbage"]})

Harm(id) ==
    /\ IsUsed(id)
    /\ harms < MaxHarms
    /\ harms' = harms + 1
    /\ running' = {} /\ anyway' = {}
    /\ \E f \in Firmware(id) :
        /\ f.place \in DOMAIN files \ harmed
        /\ \/ \E c \in Ruined(files[f.place]) :
                /\ files' = [files EXCEPT ![f.place] = c]
                /\ harmed' = harmed \cup {f.place}
           \/ /\ f.role = "Vars"
              /\ files' = [files EXCEPT ![f.place].head = "blank"]
              /\ UNCHANGED harmed
        /\ UNCHANGED <<host, system, args, made, resets>>

RemoveFile(id) ==
    /\ Stopped(id)
    /\ harms < MaxHarms
    /\ harms' = harms + 1
    /\ \E f \in Firmware(id) :
        /\ f.place \in DOMAIN files
        /\ files' = Without(files, f.place)
        /\ harmed' = harmed \ {f.place}
        /\ UNCHANGED <<host, system, args, running, anyway, made, resets>>

(* A newer release of the firmware package.                                *)
Update ==
    /\ \E name \in DOMAIN system : system[name].head = "code"
    /\ system' = [name \in DOMAIN system |->
                     IF system[name].head = "code"
                     THEN [system[name] EXCEPT !.head = "newer code"] ELSE system[name]]
    /\ UNCHANGED <<host, args, files, running, anyway, made, harmed, harms, resets>>

-----------------------------------------------------------------------------
(* VmCloner                                                                *)

(* Not the code: the short options of disks are left out.                  *)
WritesDrives(a, file) ==
    LET l == a[file[1]]
    IN  l.name = "drive" /\ Get(l.val, "media") # "cdrom" /\ ~Flag(l.val, "readonly", FALSE)

(* A disk or firmware variables, not a disc, a kernel or a script.         *)
Writes(a, file) ==
    LET l == a[file[1]] IN
    CASE l.name = "drive" -> \/ Get(l.val, "if") = "pflash"
                             \/ Get(l.val, "media") # "cdrom" /\ ~Flag(l.val, "readonly", FALSE)
      [] l.name = "blockdev" -> ~Flag(l.val, "read-only", FALSE)
      [] OTHER -> l.name \in HardDisks \cup {"pflash"}

NewMac(i) == "52:54:00:" \o ToString(i)

(* Not the code: the addresses stay.                                       *)
OldAddress(l, i) == l

(* -nic takes mac=, but it is macaddr= that is looked for.                 *)
NewAddress(l, i) ==
    CASE l.kind = "Option" /\ l.name = "uuid" -> [l EXCEPT !.val = One("new")]
      [] l.kind = "Option" /\ l.name = "device" /\ Has(l.val, "mac") ->
           [l EXCEPT !.val = SetItem(@, "mac", NewMac(i))]
      [] l.kind = "Option" /\ l.name \in {"net", "nic"} /\ Has(l.val, "macaddr") ->
           [l EXCEPT !.val = SetItem(@, IF Has(@, "mac") THEN "mac" ELSE "macaddr", NewMac(i))]
      [] OTHER -> l

(* plan(): what is written gets a place in the folder of the clone, what   *)
(* is shared a path that holds from there.  The files are those of the     *)
(* source, by line, in the arguments of the clone, which has a name.       *)
Planned(a, p, file) ==
    LET path == Place("vm", Path(a, file))
        copy == FreeName(FileName(path), p.taken)
    IN  CASE ~Writes(a, file) ->
               IF Absolute(Path(a, file)) THEN p ELSE [p EXCEPT !.args = SetFile(@, file, path)]
          [] OTHER ->
               [args   |-> SetFile(p.args, file, copy),
                taken  |-> p.taken \cup {copy},
                copies |-> IF path \notin DOMAIN files THEN p.copies
                           ELSE Put(p.copies, InFolder("clone", copy), files[path])]

Plan(a, name) ==
    LET planned == FoldLeft(LAMBDA p, file : Planned(a, p, file),
                            [args |-> SetName(a, name), taken |-> {}, copies |-> <<>>],
                            FileList(a))
    IN  [planned EXCEPT !.args = [i \in DOMAIN @ |-> NewAddress(@[i], i)]]

(* One that fails or is cancelled leaves no clone.                         *)
Clone ==
    LET plan == Plan(args["vm"], "clone")
    IN  /\ Stopped("vm")
        /\ args["clone"] = <<>>
        /\ args' = [args EXCEPT !["clone"] = plan.args]
        /\ files' = And(plan.copies, files)
        /\ harmed' = harmed \cup {p \in DOMAIN plan.copies : \E q \in harmed : plan.copies[p] = files[q]}
        /\ UNCHANGED <<host, system, running, anyway, made, harms, resets>>

-----------------------------------------------------------------------------
Init ==
    /\ host \in Hosts
    /\ system \in {Templates, [name \in {} |-> Templates[name]]}
    /\ \E w \in Written[host] \cup {[args |-> <<>>, files |-> [p \in {} |-> AtFirst[p]]]} :
         /\ args = [id \in Ids |-> IF id = "vm" THEN w.args ELSE <<>>]
         /\ files = And(w.files, AtFirst)
    /\ running = {} /\ anyway = {} /\ made = {} /\ harmed = {}
    /\ harms = 0 /\ resets = 0

New == args["vm"] = <<>> /\ \E o \in Options, fails \in {{}, {"code"}, {"vars"}} : Create(o, fails)

Next ==
    \/ New
    \/ \E script \in Scripts[host] : Import(script)
    \/ \E id \in Ids :
         \/ Start(id) \/ Reset(id) \/ Use(id) \/ ShutDown(id) \/ Harm(id) \/ RemoveFile(id)
    \/ Update
    \/ Clone

Spec == Init /\ [][Next]_vars

-----------------------------------------------------------------------------
(* A new VM has what was chosen for it, read back from its arguments: the  *)
(* memory, also shareable with the host, the processors, a card that the   *)
(* machine can have, its window, the disk and the disc; and the firmware   *)
(* chosen, with files in its folder, but UEFI without Secure Boot where    *)
(* there is none with it, and BIOS where its files could not be copied.    *)
NewAsAsked ==
    \A m \in made :
        LET a == args["vm"]
            o == m.asked
            g == Graphics(a)
            kind == CASE o.graphics = "Accelerated" -> "Accelerated"
                      [] o.graphics = "Compatible" /\ ~IsArm -> "Standard" [] OTHER -> "Virtio"
            secure == \E fw \in Firmwares : fw.arch = host /\ fw.secure
            firmware == CASE o.firmware = "Bios" \/ m.fails # {} \/ DOMAIN system = {} -> "Bios"
                          [] o.firmware = "UefiSecureBoot" /\ secure -> "UefiSecureBoot"
                          [] OTHER -> "Uefi"
        IN  /\ Cpus(a).count = o.cpus /\ o.cpus <= Processors
            /\ MemoryMiB(a) = o.memory /\ HasSharedMemory(a)
            /\ g.kind = kind /\ g.native = o.native /\ g.display = "sdl"
            /\ IsVirt(a) => g.device \notin VgaDevices
            /\ o.native => AccelProperty(a, "honor-guest-pat") = "on"
            /\ {[file |-> d.file, cdrom |-> d.cdrom] : d \in DiskSet(a)}
                   = {[file |-> f, cdrom |-> f = o.iso] : f \in {o.disk, o.iso} \ {""}}
            /\ FirmwareKind(a) = firmware
            /\ Cardinality(Firmware("vm")) = IF firmware = "Bios" THEN 0 ELSE 2

(* The flash lines of a VM name files of their own in its folder.          *)
OwnFlash(id) ==
    LET a == args[id]
    IN  /\ IsFiniteSet(FlashLines(a))
        /\ \A i \in FlashIn(id, a) :
              /\ FlashPlace(id, a, i) \in Folders[id]
              /\ \A j \in FlashIn(id, a) : FlashPlace(id, a, i) = FlashPlace(id, a, j) => i = j

Regular ==
    /\ \A p \in DOMAIN files : IsContent(files[p])
    /\ harmed \subseteq DOMAIN files
    /\ \A id \in Ids : OwnFlash(id)

(* A template is a whole firmware volume, and what is told of the format   *)
(* of a file is that of its template.                                      *)
IsVolume(c) == c.tables = "whole" /\ c.size \notin {"none", "less"} /\ Volume(c.head) # ""

TellsFormat(id, i) ==
    LET told     == ToldFormat(args[id], i)
        template == Entry(system, files, id, args[id], i).template
    IN  told # "" => IsFormat(told) /\ (template # "" => system[template].fmt = told)

FormatsAgree ==
    /\ \A name \in DOMAIN system : IsVolume(system[name])
    /\ \A id \in Ids : \A i \in FlashIn(id, args[id]) : TellsFormat(id, i)

(* The manager calls a firmware copy damaged exactly when it lost what it  *)
(* held: not after the guest used it, with an update of the system's       *)
(* firmware, in a clone, or under the name that an import gave it.  One    *)
(* that is half written was told of when it was.  The files are those of   *)
(* one line each, and in the formats that the lines tell.                  *)
DamageIsTold ==
    /\ Regular
    /\ FormatsAgree
    /\ \A id \in Ids : \A f \in Firmware(id) :
          f.template # "" /\ f.place \in DOMAIN files /\ files[f.place].data # "half"
              => (Problem(system, files, f) # "" <=> f.place \in harmed)

(* A VM that runs, and was not started anyway, runs with all of its        *)
(* firmware, and none of it damaged, whatever failed when it was replaced. *)
RunsWhole ==
    \A id \in running \ anyway : \A f \in Firmware(id) :
        f.template # "" => f.place \in DOMAIN files /\ Problem(system, files, f) = ""

(* What was in the place p in d is in e.                                   *)
Keeps(d, e, p) ==
    \/ p \in DOMAIN e /\ e[p] = d[p]
    \/ \E q \in DOMAIN e \ DOMAIN d : e[q] = d[p]

(* Nothing that the manager does, whatever fails on the way, takes away    *)
(* what is in a file: it stays where it is, or in a backup with a new name.*)
NothingLost ==
    [][harms' = harms =>
         \A p \in DOMAIN files \ UNION {QemuWrites(args[id], id) : id \in running} :
             Keeps(files, files', p)]_vars

(* Words that name no file.                                                *)
NoNames == {"", "no", Bare}

(* Where the files of the arguments are, and what their copies are called. *)
FilePlaces(a) == {Place("vm", Path(a, f)) : f \in Files(a)}
CopyNames(a) == {Numbered(FileName(place), n) : place \in FilePlaces(a), n \in 1..9}
CopyPlaces(a) == {InFolder("clone", name) : name \in CopyNames(a)}

(* What can be cloned: arguments with a name, and with at most as many     *)
(* files as there are numbers; and there is nothing in the folder of the   *)
(* clone, nor named in the arguments.  The names of copies are no paths,   *)
(* and differ by their numbers.                                            *)
Cloneable(a) ==
    /\ a \in Seq([kind : STRING, name : STRING, val : Seq(STRING \X STRING)])
    /\ IndexOf(a, "name") # 0
    /\ Len(FileList(a)) <= 9
    /\ FilePlaces(a) \cap NoNames = {}
    /\ CopyPlaces(a) \cap (FilePlaces(a) \cup DOMAIN files) = {}
    /\ CopyNames(a) \cap (Paths \cup NoNames) = {}
    /\ \A place \in FilePlaces(a), n, k \in 1..9 :
           Numbered(FileName(place), n) = Numbered(FileName(place), k) => n = k

(* No file that QEMU would open to write for a VM is one that it writes    *)
(* for the clone.                                                          *)
CloneOwns ==
    LET clones == QemuWrites(args["clone"], "clone")
    IN  clones # {} => clones \cap QemuWrites(args["vm"], "vm") = {}

(* Only what can be cloned is.                                             *)
(* Each file of a clone is the file of its source in the same place, or    *)
(* holds what that one holds; the rest of the arguments are the same, but  *)
(* for the name and the addresses.  The network cards of the two share     *)
(* exactly the addresses that -nic lines give with mac=, which plan()      *)
(* overlooks, though a clone is said to get new ones (vmcloner.h:20).      *)
CloneSame ==
    [][args["clone"] # args'["clone"] =>
         LET a == args["vm"]
             b == args'["clone"]
             from(f) == Place("vm", Path(a, f))
             to(f)   == Place("clone", Path(b, f))
             cards(c) == UNION {IndexesOf(c, name) : name \in {"device", "net", "nic"}}
             macs(c)  == {Get(c[i].val, key) : i \in cards(c), key \in {"mac", "macaddr"}} \ {""}
             kept     == {Get(a[i].val, "mac") : i \in {j \in IndexesOf(a, "nic") :
                                                             ~Has(a[j].val, "macaddr")}} \ {""}
             Rest(c, i) == SelectSeq(c[i].val, LAMBDA item :
                 item[1] \notin {"mac", "macaddr"} /\ ~\E f \in Files(c) : f = <<i, item[1]>>)
         IN  /\ Cloneable(a)
             /\ Len(a) = Len(b) /\ Files(a) = Files(b)
             /\ \A f \in Files(a) : \/ from(f) = to(f)
                                    \/ from(f) \notin DOMAIN files /\ to(f) \notin DOMAIN files'
                                    \/ files'[to(f)] = files[from(f)]
             /\ macs(a) \cap macs(b) = kept
             /\ \A i \in DOMAIN a : a[i].name \in {"name", "uuid"} \/ Rest(a, i) = Rest(b, i)]_vars
=============================================================================
