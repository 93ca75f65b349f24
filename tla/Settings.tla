------------------------------ MODULE Settings ------------------------------
(***************************************************************************)
(* The Settings tab of a VM (ui/vmpane.cpp, ui/settingspages.cpp): pages   *)
(* that show parts of the same arguments and write back what the user      *)
(* changed, Apply and Discard, and vm.args, which is also edited by hand.  *)
(* A page is what its widgets show and what it compares that with; dialogs *)
(* and messages are left out.                                              *)
(***************************************************************************)
EXTENDS VmHardware

CONSTANTS
    Texts,        \* what vm.args holds at first,
    HandTexts,    \* and what is put there by hand
    Folder,       \* the files in the VM folder at first
    HostPci,      \* the devices of the host, in the order of their lists
    HostUsb,
    Unreadable,   \* the firmware code whose files cannot be copied
    Pages,        \* the pages that are visited, of AllPages
    MaxEvents,    \* bound: changes the user makes on the pages, changes of
                  \* vm.args by hand and files that cannot be written
    RemovesMore   \* gate: the user may remove several disks at once

AllPages == {"General", "System", "Display", "Storage", "Shares", "Pci", "Usb", "Arguments"}

ASSUME SettingsAssumption ==
    /\ Pages \subseteq AllPages /\ Pages # {}
    /\ Texts # {} /\ MaxEvents \in Nat
    /\ RemovesMore \in BOOLEAN

VARIABLES
    file,      \* vm.args: its lines of text
    vm,        \* Vm::m_args
    told,      \* the watcher has nothing more to tell of the file
    args,      \* VmPane::m_args, the arguments to be applied
    loaded,    \* VmPane::m_loaded
    page,      \* the page shown
    shown,     \* what its widgets show
    was,       \* what it compares them with
    pending,   \* StoragePage::m_pending: the new disks, not created yet
    staged,    \* SystemPage::m_staging: copies of firmware
    folder,    \* the files in the VM folder
    events     \* the number of events so far

vars == <<file, vm, told, args, loaded, page, shown, was, pending, staged, folder,
          events>>

-----------------------------------------------------------------------------
(* Display                                                                 *)

CardsOf(kind, virt) ==
    CASE kind = "Accelerated" -> IF virt THEN <<"virtio-gpu-gl-pci">>
                                 ELSE <<"virtio-vga-gl", "virtio-gpu-gl-pci">>
      [] kind = "Virtio" -> IF virt THEN <<"virtio-gpu-pci">> ELSE <<"virtio-vga", "virtio-gpu-pci">>
      [] OTHER -> <<>>

(* The card as written, or its twin, else the first of the list.           *)
DeviceShown(kind, old, virt) ==
    LET cards     == CardsOf(kind, virt)
        preferred == IF kind = old.kind THEN old.device ELSE GlCounterpart(old.device)
    IN  IF cards = <<>> THEN "" ELSE IF preferred = "" THEN cards[1] ELSE preferred

GiB(hostmem) == Max({4, (hostmem + 1023) \div 1024})

ShownGraphics(s, w) ==
    LET three == s.kind = "Accelerated"
    IN  [kind |-> s.kind, device |-> s.device, native |-> three /\ s.native,
         venus |-> three /\ s.venus, display |-> s.display,
         hostmem |-> IF s.gib # GiB(w.hostmem) THEN s.gib * 1024 ELSE w.hostmem]

DisplayModified(s, w) ==
    LET g == ShownGraphics(s, w)
    IN  \/ g.kind # w.kind \/ g.device \notin {"", w.device}
        \/ g.native # w.native \/ g.venus # w.venus \/ g.display # w.display
        \/ (g.native \/ g.venus) /\ s.gib # GiB(w.hostmem)

-----------------------------------------------------------------------------
(* Storage                                                                 *)

EachOf(seq, F(_)) == [i \in DOMAIN seq |-> F(seq[i])]

Entries(a, p) ==
    LET Entry(d) == [disk |-> d, file |-> d.file, new |-> d.file \in p, removed |-> FALSE]
    IN  EachOf(Disks(a), Entry)

NewEntry(cdrom, bus, name) ==
    [disk |-> [line |-> 0, device |-> 0, file |-> "", cdrom |-> cdrom, bus |-> bus,
               bootindex |-> -1, editable |-> TRUE],
     file |-> name, new |-> ~cdrom, removed |-> FALSE]

DiskNames == <<"disk.qcow2", "disk2.qcow2", "disk3.qcow2", "disk4.qcow2", "disk5.qcow2">>

NewDiskName(entries) ==
    DiskNames[SelectInSeq(DiskNames, LAMBDA name :
        name \notin folder \cup pending \cup {entries[i].file : i \in DOMAIN entries})]

(* Discs first, which move no line, then the removals from the bottom by   *)
(* the numbers the lines had, then the new drives.                         *)
SaveStorage(a, entries) ==
    LET Bottom(d) == Max({d.line, d.device})
        discs   == SelectSeq(entries, LAMBDA e :
                       e.disk.line # 0 /\ ~e.removed /\ e.disk.cdrom /\ e.file # e.disk.file)
        removed == SetToSortSeq({entries[i].disk : i \in {j \in DOMAIN entries : entries[j].removed}},
                                LAMBDA d, e : Bottom(d) > Bottom(e))
        added   == SelectSeq(entries, LAMBDA e : e.disk.line = 0 /\ ~e.removed)
    IN  FoldLeft(LAMBDA b, e : IF e.disk.cdrom THEN AddCdrom(b, e.file)
                               ELSE AddDisk(b, e.file, e.disk.bus),
            FoldLeft(RemoveDisk, FoldLeft(LAMBDA b, e : SetDisc(b, e.disk, e.file), a, discs),
                     removed),
            added)

-----------------------------------------------------------------------------
(* System                                                                  *)

(* A topology is shown if part of it is given, and 128 MiB for no memory.  *)
ShownCpus(c) ==
    LET One(n) == IF c.sockets + c.cores + c.threads > 0 THEN Else(n, 1) ELSE n
    IN  [c EXCEPT !.sockets = One(@), !.cores = One(@), !.threads = One(@)]

LoadSystem(a) ==
    [mem |-> Else(MemoryMiB(a), 128), cpus |-> ShownCpus(Cpus(a)),
     flags |-> <<>>, machine |-> MachineType(a), accel |-> Accel(a), qemu |-> QemuBinary(a),
     firmware |-> FirmwareKind(a), menu |-> BootMenu(a), boot |-> FirstBootDevice(a)]

(* The flags written after the processor model: host,+avx or host,x=on     *)
SaveFlags(a, flags) ==
    LET cpu == IndexOf(a, "cpu")
        Word(item)  == IF item[1] = "" THEN item[2] ELSE item[1]
        IsWord(item) == item[1] = "" \/ item[2] = Bare
        Put(v, item) == CASE ~IsWord(item) -> SetItem(v, item[1], item[2])
                          [] IsWord(item) /\ Has(v, Word(item)) -> v
                          [] OTHER -> Append(v, <<Word(item), Bare>>)
    IN  IF flags = <<>> THEN a ELSE SetValueAt(a, cpu, FoldLeft(Put, a[cpu].val, flags))

ChosenFirmware(s) == FindFirmware(s.firmware = "UefiSecureBoot", s.machine)

(* FirmwareDb::apply() does nothing if it cannot copy the files, which     *)
(* saveBoot() does not look at.                                            *)
AppliedFirmware(s) == {fw \in ChosenFirmware(s) : fw.code \notin Unreadable}

SaveFirmware(a, s) ==
    CASE s.firmware = "Bios" -> UseBios(a)
      [] s.firmware # "Bios" /\ AppliedFirmware(s) # {} ->
           ApplyFirmware(a, CHOOSE fw \in AppliedFirmware(s) : TRUE)
      [] OTHER -> a

SaveMemory(a, s, w) == IF s.mem = w.mem THEN a ELSE SetMemoryMiB(a, s.mem)

SaveCpus(a, s, w) ==
    IF s.cpus = w.cpus THEN a
    ELSE IF s.cpus.threads > 1 /\ s.cpus.model \in {"host", "max"}
    THEN EnableCpuFeature(SetCpus(a, s.cpus), "topoext") ELSE SetCpus(a, s.cpus)

SaveProcessor(a, s, w) ==
    IF s.cpus.model = "" THEN SaveCpus(a, s, w) ELSE SaveFlags(SaveCpus(a, s, w), s.flags)

SaveMachine(a, s, w) ==
    IF s.machine \in {"", w.machine} THEN a ELSE SetMachineType(a, s.machine)

SaveAccel(a, s, w) == IF s.accel = w.accel THEN a ELSE SetAccel(a, s.accel)

SaveQemu(a, s, w) == IF s.qemu = w.qemu THEN a ELSE SetQemuBinary(a, s.qemu)

SaveMenu(a, s, w) == IF s.menu = w.menu THEN a ELSE SetBootMenu(a, s.menu)

SaveFirst(a, s, w) == IF s.boot = w.boot THEN a ELSE SetFirstBootDevice(a, s.boot)

SaveBoot(a, s, w) ==
    SaveFirst(SaveMenu(IF s.firmware \in {w.firmware, "Custom"} THEN a ELSE SaveFirmware(a, s),
                       s, w), s, w)

SaveSystem(a, s, w) ==
    SaveBoot(SaveQemu(SaveAccel(SaveMachine(SaveProcessor(SaveMemory(a, s, w),
        s, w), s, w), s, w), s, w), s, w)

-----------------------------------------------------------------------------
(* The lists of devices: those of the host, then those that are not there  *)

LoadItems(ids, host) ==
    LET missing == SelectSeq(ids, LAMBDA id : id \notin ToSet(host))
    IN  [i \in DOMAIN host |-> [id |-> host[i], on |-> host[i] \in ToSet(ids)]]
        \o [i \in DOMAIN missing |-> [id |-> missing[i], on |-> TRUE]]

Checked(items) ==
    LET on == SelectSeq(items, LAMBDA item : item.on) IN [i \in DOMAIN on |-> on[i].id]

(* Checking a function of a card checks the others.                        *)
Card(address) == IF address \in {"0000:03:00.0", "0000:03:00.1"} THEN "0000:03:00" ELSE address

-----------------------------------------------------------------------------
(* Every page: what it shows of the arguments, what it compares with, when *)
(* it has changes and how it writes them back                              *)

ShowGraphics(g, virt) ==
    [kind |-> g.kind, device |-> DeviceShown(g.kind, g, virt), native |-> g.native,
     venus |-> g.venus, gib |-> GiB(g.hostmem), display |-> g.display]

LoadDisplay(a) ==
    ShowGraphics(Graphics(a), IsVirt(a))

LoadShares(a) == [list |-> Shares(a), fix |-> FALSE, shared |-> HasSharedMemory(a)]
LoadPci(a) == [items |-> LoadItems(PciPassthrough(a), HostPci)]
LoadUsb(a) == [items |-> LoadItems(UsbPassthrough(a), HostUsb), add |-> FALSE]

Load(p, a, pend) ==
    CASE p = "General" -> [name |-> Name(a)]
      [] p = "System" -> LoadSystem(a)
      [] p = "Display" -> LoadDisplay(a)
      [] p = "Storage" -> [entries |-> Entries(a, pend)]
      [] p = "Shares" -> LoadShares(a)
      [] p = "Pci" -> LoadPci(a)
      [] p = "Usb" -> LoadUsb(a)
      [] OTHER -> [text |-> ToText(a)]

LoadWas(p, a, pend) ==
    CASE p = "Display" -> Graphics(a)
      [] p = "Pci" -> [ids |-> PciPassthrough(a)]
      [] p = "Usb" -> [ids |-> UsbPassthrough(a)]
      [] OTHER -> Load(p, a, pend)

StorageModified(s) ==
    \E i \in DOMAIN s.entries :
        LET e == s.entries[i] IN e.removed \/ e.disk.line = 0 \/ e.file # e.disk.file

IsModified(p, s, w) ==
    CASE p = "Display" -> DisplayModified(s, w)
      [] p = "Storage" -> StorageModified(s)
      [] p = "Shares" -> s.list # w.list \/ s.fix
      [] p = "Pci" -> Checked(s.items) # w.ids
      [] p = "Usb" -> Checked(s.items) # w.ids \/ s.add
      [] OTHER -> s # w

FixMemory(a, fix) == IF fix /\ ~HasSharedMemory(a) THEN UseSharedMemory(a) ELSE a

SaveShares(a, s, w) ==
    FixMemory(IF s.list = w.list THEN a ELSE SetShares(a, s.list), s.fix /\ s.list # <<>>)

SavePci(a, s) == SetPciPassthrough(a, Checked(s.items))

AddController(a, add) ==
    IF add /\ ~HasUsbController(a) THEN Add(a, Option("device", <<<<"", "qemu-xhci">>>>)) ELSE a

SaveUsb(a, s, w) ==
    AddController(IF Checked(s.items) = w.ids THEN a ELSE SetUsbPassthrough(a, Checked(s.items)),
                  s.add)

Save(p, a, s, w) ==
    CASE p = "General" -> SetName(a, s.name)
      [] p = "System" -> SaveSystem(a, s, w)
      [] p = "Display" -> SetGraphics(a, ShownGraphics(s, w))
      [] p = "Storage" -> SaveStorage(a, s.entries)
      [] p = "Shares" -> SaveShares(a, s, w)
      [] p = "Pci" -> SavePci(a, s)
      [] p = "Usb" -> SaveUsb(a, s, w)
      [] OTHER -> Parse(s.text)

Modified == ToText(args) # loaded \/ IsModified(page, shown, was)

(* The arguments, new disks and firmware copies once the page is saved.    *)
Saved == IF IsModified(page, shown, was) THEN Save(page, args, shown, was) ELSE args

PendingSaved ==
    IF page # "Storage" THEN pending
    ELSE pending \cup {shown.entries[i].file : i \in {j \in DOMAIN shown.entries :
            shown.entries[j].new /\ ~shown.entries[j].removed /\ shown.entries[j].disk.line = 0}}

FilesOf(fw) == IF fw.mode = "split" THEN {fw.code, fw.vars} ELSE {fw.code}

StagedSaved ==
    IF page # "System" THEN staged
    ELSE IF shown.firmware \in {was.firmware, "Bios", "Custom"} THEN staged
    ELSE staged \cup UNION {FilesOf(fw) : fw \in AppliedFirmware(shown)}

-----------------------------------------------------------------------------
Init ==
    /\ file \in Texts
    /\ vm = Parse(file) /\ told = TRUE
    /\ args = vm /\ loaded = ToText(args)
    /\ page \in Pages
    /\ pending = {} /\ staged = {} /\ folder = Folder
    /\ shown = Load(page, args, pending) /\ was = LoadWas(page, args, pending)
    /\ events = 0

ShowPage(p, a, pend) ==
    /\ args' = a /\ page' = p
    /\ shown' = Load(p, a, pend) /\ was' = LoadWas(p, a, pend)

Event == events < MaxEvents /\ events' = events + 1

(* The user changes what a page shows.                                     *)
Change(p, new) ==
    /\ page = p /\ shown' = new /\ shown' # shown
    /\ Event
    /\ UNCHANGED <<file, vm, told, args, loaded, page, was, pending, staged, folder>>

ChangeGeneral == page = "General" /\ Change("General", [name |-> "other"])

(* The topology counts the processors while it is set.                     *)
ChangeCpus ==
    /\ page = "System"
    /\ \E model \in {"", "host"}, t \in {<<0, 0, 0>>, <<1, 2, 2>>} :
             Change("System", [shown EXCEPT !.cpus = [count |-> 4, sockets |-> t[1], cores |-> t[2],
                                                      threads |-> t[3], model |-> model]])

(* What the other widgets of the page can show instead.                    *)
SystemChoices ==
    {[shown EXCEPT !.mem = 3072], [shown EXCEPT !.menu = ~@]}
    \cup {[shown EXCEPT !.machine = machine] : machine \in {"q35", "virt"}}
    \cup {[shown EXCEPT !.accel = accel] : accel \in {"kvm", "tcg"}}
    \cup {[shown EXCEPT !.qemu = qemu] : qemu \in {"", "/opt/qemu"}}
    \cup IF shown.cpus.model = "" THEN {}
         ELSE {[shown EXCEPT !.flags = flags] :
                   flags \in {<<<<"", "+avx">>>>, <<<<"topoext", "off">>>>}}

ChangeSystem == page = "System" /\ \E new \in SystemChoices : Change("System", new)

(* Only devices the VM has can be chosen, and UEFI alone on ARM.           *)
ChangeBoot ==
    /\ page = "System"
    /\ \/ \E kind \in {"Bios", "Uefi", "UefiSecureBoot"} :
             /\ was.firmware # "Custom"
             /\ kind # "Uefi" /\ was.firmware # kind =>
                   ~IsVirt(args) \/ (kind = "UefiSecureBoot" /\ FindFirmware(TRUE, was.machine) # {})
             /\ Change("System", [shown EXCEPT !.firmware = kind])
       \/ \E device \in {"Default", "Disk", "Cdrom", "Network"} :
             /\ device = "Network" => NicLines(args) # {}
             /\ device \in {"Disk", "Cdrom"} =>
                   \E d \in DiskSet(args) : d.editable /\ d.cdrom = (device = "Cdrom")
             /\ Change("System", [shown EXCEPT !.boot = device])

ChangeDisplay ==
    /\ page = "Display"
    /\ \/ \E kind \in {"Accelerated", "Virtio", "Standard", "None"} :
             /\ was.kind # "Custom" /\ kind # shown.kind
             /\ kind = "Standard" => ~IsVirt(args)
             /\ Change("Display", [shown EXCEPT !.kind = kind,
                                                !.device = DeviceShown(kind, was, IsVirt(args))])
       \/ \E card \in ToSet(CardsOf(shown.kind, IsVirt(args))) :
             was.kind # "Custom" /\ Change("Display", [shown EXCEPT !.device = card])
       \/ /\ shown.kind = "Accelerated"
          /\ \/ Change("Display", [shown EXCEPT !.native = ~@])
             \/ Change("Display", [shown EXCEPT !.venus = ~@])
             \/ (shown.native \/ shown.venus) /\ Change("Display", [shown EXCEPT !.gib = 1])
       \/ \E display \in {"sdl", "gtk", "none"} : Change("Display", [shown EXCEPT !.display = display])

(* A disk to create, or an image that exists.                              *)
AddsDisk ==
    LET new(bus) == NewEntry(FALSE, bus, NewDiskName(shown.entries))
        existing == [new("Virtio") EXCEPT !.file = "/old/disk.qcow2", !.new = FALSE]
    IN  \E entry \in {new("Virtio"), new(IF IsVirt(args) THEN "Scsi" ELSE "Sata"), existing} :
            Change("Storage", [entries |-> Append(shown.entries, entry)])

AddsCdrom ==
    \E iso \in {"", "new.iso"} :
        Change("Storage", [entries |-> Append(shown.entries,
            NewEntry(TRUE, IF IsVirt(args) THEN "Scsi" ELSE "Sata", iso))])

ChoosesDisc(i) ==
    \E iso \in {"", "new.iso"} :
        shown.entries[i].disk.cdrom /\ Change("Storage", [shown EXCEPT !.entries[i].file = iso])

(* A new disk leaves the list, another one is marked.                      *)
RemovesDisk(i) ==
    IF shown.entries[i].disk.line = 0
    THEN Change("Storage", [shown EXCEPT !.entries = RemoveAt(@, i)])
    ELSE /\ RemovesMore \/ \A j \in DOMAIN shown.entries : ~shown.entries[j].removed
         /\ Change("Storage", [shown EXCEPT !.entries[i].removed = TRUE])

ChangeStorage ==
    /\ page = "Storage"
    /\ \/ AddsDisk \/ AddsCdrom
       \/ \E i \in DOMAIN shown.entries :
              /\ shown.entries[i].disk.editable /\ ~shown.entries[i].removed
              /\ ChoosesDisc(i) \/ RemovesDisk(i)

ValidTag(tag, others) == tag # "" /\ \A i \in DOMAIN others : others[i].tag # tag

(* A folder that is added asks for shared memory.                          *)
ChangeShares ==
    /\ page = "Shares"
    /\ LET new == [tag |-> "new", path |-> "/new", cache |-> "auto", readonly |-> TRUE,
                   mount |-> "/mnt/new"]
       IN  \/ /\ ValidTag("new", shown.list)
              /\ Change("Shares", [shown EXCEPT !.list = Append(@, new), !.fix = @ \/ ~was.shared])
           \/ \E i \in DOMAIN shown.list :
                 \/ Change("Shares", [shown EXCEPT !.list = RemoveAt(@, i)])
                 \/ Change("Shares", [shown EXCEPT !.list[i].cache = "always", !.list[i].mount = ""])
           \/ shown.list # <<>> /\ ~was.shared /\ Change("Shares", [shown EXCEPT !.fix = TRUE])

ChangePci ==
    /\ page = "Pci"
    /\ \E i \in DOMAIN shown.items :
          Change("Pci", [items |-> [j \in DOMAIN shown.items |->
              IF ~shown.items[i].on /\ Card(shown.items[j].id) = Card(shown.items[i].id)
              THEN [shown.items[j] EXCEPT !.on = TRUE]
              ELSE IF i = j THEN [shown.items[j] EXCEPT !.on = ~@] ELSE shown.items[j]]])

ChangeUsb ==
    /\ page = "Usb"
    /\ \/ \E i \in DOMAIN shown.items : Change("Usb", [shown EXCEPT !.items[i].on = ~@])
       \/ ~HasUsbController(args) /\ Change("Usb", [shown EXCEPT !.add = TRUE])

(* The user deletes a line or writes some.                                 *)
ChangeArguments ==
    /\ page = "Arguments"
    /\ LET Line(lead, word) == [lead |-> lead, word |-> word, rest |-> <<>>]
       IN  \/ \E i \in DOMAIN shown.text : Change("Arguments", [text |-> RemoveAt(shown.text, i)])
           \/ Change("Arguments", [text |-> shown.text \o
                 <<Line("", ""), Line("--", "nodefaults"), Line("?", "prose"), Line("", "")>>])

Edit == \/ ChangeGeneral \/ ChangeCpus \/ ChangeSystem \/ ChangeBoot \/ ChangeDisplay
        \/ ChangeStorage \/ ChangeShares \/ ChangePci \/ ChangeUsb \/ ChangeArguments

(* What the page left changed goes to the arguments, for the next page.    *)
SwitchWith(saved, pend) ==
    /\ \E p \in Pages \ {page} : ShowPage(p, saved, pend)
    /\ pending' = pend /\ staged' = StagedSaved
    /\ UNCHANGED <<file, vm, told, loaded, folder, events>>

Switch == SwitchWith(Saved, PendingSaved)

(* commit(): the copies of firmware that the arguments name, if not there  *)
(* yet, then the new disks they name.                                      *)
Named(a) == {Path(a, f) : f \in Files(a)}

(* Not the code: the pages commit the arguments from before the page.      *)
CopiesBefore(saved) == {copy \in StagedSaved \ folder : copy \in Named(args)}

Copies(saved) == {copy \in StagedSaved \ folder : copy \in Named(saved)}

NewDisks(saved) ==
    {disk \in PendingSaved \ folder : \E d \in DiskSet(saved) : d.file = disk}

(* Vm::save() replaces the file, unless the text is the same.  The watcher *)
(* tells of it too, which is a step here if Vm::reload() then reads        *)
(* another text than the one it has.                                       *)
ApplyTo(saved) ==
    LET writes == ToText(saved) # ToText(vm)
        same == ToText(Parse(ToText(saved))) = ToText(saved)
    IN  /\ folder' = folder \cup Copies(saved) \cup NewDisks(saved)
        /\ pending' = {} /\ staged' = StagedSaved
        /\ IF writes THEN file' = ToText(saved) /\ vm' = saved /\ told' = (told /\ same)
           ELSE UNCHANGED <<file, vm, told>>
        /\ loaded' = ToText(vm')
        /\ ShowPage(page, vm', {})
        /\ UNCHANGED events

Apply == Modified /\ ApplyTo(Saved)

DiskNumber(name) == SelectInSeq(DiskNames, LAMBDA n : n = name)

(* A file cannot be written: some of the files are there, and the pending  *)
(* disks after the one that failed are kept.                               *)
FilesFail(copies, disks, writes) ==
    \/ \E done \in SUBSET copies :
          done # copies /\ folder' = folder \cup done /\ pending' = PendingSaved
    \/ \E failed \in disks :
          LET before == {d \in PendingSaved : DiskNumber(d) < DiskNumber(failed)}
          IN  /\ folder' = folder \cup copies \cup (disks \cap before)
              /\ pending' = PendingSaved \ before
    \/ writes /\ folder' = folder \cup copies \cup disks /\ pending' = {}

(* The page has been saved: two pages show what there is now.              *)
PageSaved(saved) ==
    IF page \in {"Display", "Storage"} THEN ShowPage(page, saved, PendingSaved)
    ELSE /\ args' = saved /\ UNCHANGED page
         /\ IF IsModified(page, shown, was)
            THEN /\ shown' = CASE page = "System" -> [shown EXCEPT !.flags = <<>>]
                               [] page = "Shares" -> [shown EXCEPT !.fix = FALSE,
                                                                  !.shared = HasSharedMemory(saved)]
                               [] page = "Usb" -> [shown EXCEPT !.add = FALSE]
                               [] OTHER -> shown
                 /\ was' = IF page \in {"Pci", "Usb"} THEN [ids |-> Checked(shown.items)] ELSE shown'
            ELSE UNCHANGED <<shown, was>>

ApplyFailsTo(saved) ==
    /\ FilesFail(Copies(saved), NewDisks(saved), ToText(saved) # ToText(vm))
    /\ PageSaved(saved)
    /\ staged' = StagedSaved
    /\ UNCHANGED <<file, vm, told, loaded>>

ApplyFails == Modified /\ Event /\ ApplyFailsTo(Saved)

Discard ==
    /\ Modified
    /\ ShowPage(page, vm, pending) /\ loaded' = ToText(vm)
    /\ UNCHANGED <<file, vm, told, pending, staged, folder, events>>

(* Another VM is shown, and this one again: its pages are new.             *)
Rebuild ==
    /\ ~Modified
    /\ pending' = {} /\ staged' = {}
    /\ ShowPage(page, vm, {}) /\ loaded' = ToText(vm)
    /\ UNCHANGED <<file, vm, told, folder, events>>

(* vm.args is replaced by hand, and the watcher tells.                     *)
EditByHand ==
    /\ Event
    /\ \E text \in HandTexts : file' = text /\ file' # file
    /\ told' = FALSE
    /\ UNCHANGED <<vm, args, loaded, page, shown, was, pending, staged, folder>>

(* Vm::reload(): the same text is not parsed again.                        *)
Reread == IF ToText(Parse(file)) = ToText(vm) THEN vm ELSE Parse(file)

(* Not the code: the page is not loaded again.                             *)
PageStays ==
    /\ ~told /\ told' = TRUE
    /\ vm' = Reread
    /\ IF Modified THEN UNCHANGED <<args, loaded>> ELSE args' = vm' /\ loaded' = ToText(vm')
    /\ UNCHANGED <<file, page, shown, was, pending, staged, folder, events>>

FileChanged ==
    /\ ~told /\ told' = TRUE
    /\ vm' = Reread
    /\ IF vm' # vm /\ ~Modified
       THEN ShowPage(page, vm', pending) /\ loaded' = ToText(vm')
       ELSE UNCHANGED <<args, loaded, page, shown, was>>
    /\ UNCHANGED <<file, pending, staged, folder, events>>

Next ==
    \/ Edit \/ Switch \/ Apply \/ ApplyFails \/ Discard \/ Rebuild
    \/ EditByHand \/ FileChanged

Spec == Init /\ [][Next]_vars

-----------------------------------------------------------------------------
(* A page is saved by Apply, the only step that changes vm of a page with  *)
(* changes; what Switch and ApplyFails save is the same.                   *)
Saves == /\ args' # args /\ vm' # vm /\ vm' = args'
         /\ IsModified(page, shown, was)

(* Whether a page that reads the new arguments shows what the user chose:  *)
(* but for flags of the processor, which go to the -cpu line, a firmware   *)
(* this computer does not have or cannot read, and Secure Boot, which writes the machine  *)
(* it needs into a VM that names none.                                     *)
Agrees(p, now, chosen, old) ==
    CASE p = "System" ->
           /\ \A key \in {"mem", "cpus", "accel", "qemu", "menu"} : now[key] = chosen[key]
           /\ \/ now.machine = chosen.machine
              \/ /\ chosen.machine = "" /\ now.machine = "q35"
                 /\ \E fw \in AppliedFirmware(chosen) : fw.smm
           /\ \/ now.firmware = chosen.firmware
              \/ now.firmware = old.firmware /\ AppliedFirmware(chosen) = {}
           /\ now.boot = chosen.boot
      [] p = "Display" ->
           /\ \A key \in {"kind", "native", "venus", "display"} :
                  now[key] = ShownGraphics(chosen, old)[key]
           /\ chosen.device \in {"", now.device}
           /\ now.native \/ now.venus => now.gib = chosen.gib \/ now.gib = GiB(chosen.gib * 1024)
      [] p = "Storage" ->
           LET left  == SelectSeq(chosen.entries, LAMBDA e : ~e.removed)
               Key(d) == <<d.file, d.cdrom, d.bus>>
           IN  [i \in DOMAIN now.entries |-> Key(now.entries[i].disk)] =
               [i \in DOMAIN left |-> <<left[i].file, left[i].disk.cdrom, left[i].disk.bus>>]
      [] p = "Shares" -> now.list = chosen.list /\ (chosen.fix /\ chosen.list # <<>> => now.shared)
      [] p = "Pci" -> ToSet(Checked(now.items)) = ToSet(Checked(chosen.items))
      [] p = "Usb" -> /\ ToSet(Checked(now.items)) = ToSet(Checked(chosen.items))
                      /\ chosen.add => HasUsbController(args')
      [] OTHER -> now = chosen

(* What the user chose on a page is what the page shows of the arguments   *)
(* it saved, and so what the next start uses: the setters of one page,     *)
(* called one after the other on the same lines, do not undo each other,   *)
(* whatever form the lines were written in.                                *)
ReadsBack ==
    [][Saves /\ page # "Arguments" => Agrees(page, Load(page, args', {}), shown, was)]_vars

(* What another page shows, as far as saving page p has no business with   *)
(* it: a machine of ARM has no VGA, a drive that can be booted from gets a *)
(* line of its own, and a disk that is gone is not booted from.            *)
View(q, p, a) ==
    CASE q = "System" /\ p \in {"Storage", "General"} -> [LoadSystem(a) EXCEPT !.boot = ""]
      [] q = "Storage" -> LET Seen(d) == <<d.file, d.cdrom, d.bus>> IN EachOf(Disks(a), Seen)
      [] q = "Usb" -> <<UsbPassthrough(a), HasUsbController(a)>>
      [] OTHER -> Load(q, a, {})

ButBootIndex(l) == RemoveItem(l.val, "bootindex")

Unknown(a) ==
    SelectSeq(a, LAMBDA l : l.kind \in {"Comment", "Blank"}
        \/ /\ l.kind = "Option"
           /\ \/ l.name \in {"netdev", "nographic", "nodefaults", "pidfile"}
              \/ Has(l.val, "netdev"))

(* Saving a page only changes the settings of that page: the other pages   *)
(* show what they showed, and the lines no page knows are as they were     *)
(* ("whatever else is on those lines, hand-written or unknown to the       *)
(* manager, stays", core/vmconfig.h).                                      *)
OthersStay ==
    [][Saves /\ page # "Arguments" =>
          /\ \A q \in AllPages \ {page, "Arguments"} :
                \/ View(q, page, args') = View(q, page, args)
                \/ q = "Display" /\ page = "System" /\ IsVirt(args') # IsVirt(args)
                \/ q = "System" /\ page = "Shares" /\ MemoryMiB(args) = 0
          /\ EachOf(Unknown(args'), ButBootIndex) = EachOf(Unknown(args), ButBootIndex)]_vars

(* QEMU reads the arguments: no option lacks its value (the next one would *)
(* be taken for it), ids are unique, a device has its drive, and no two    *)
(* devices or flash drives ask for the same place.                         *)
Takes(a) ==
    LET Lines(names) == {i \in DOMAIN a : a[i].kind = "Option" /\ CanonicalName(a[i].name) \in names}
        Apart(S, key) == \A i, j \in {n \in S : Has(a[n].val, key)} :
                             Get(a[i].val, key) = Get(a[j].val, key) => i = j
    IN  /\ \A i \in Lines({"machine", "accel", "m", "smp", "cpu", "boot", "drive", "device", "display"}) :
               a[i].val \notin {<<>>, <<<<"", "">>>>}
        /\ Apart(Lines({"drive"}), "id") /\ Apart(Lines({"device"}), "id") /\ Apart(Lines({"object"}), "id")
        /\ \A i \in Lines({"device"}) : Has(a[i].val, "drive") =>
               \E j \in Lines({"drive", "blockdev"}) :
                   Get(a[i].val, "drive") \in {Get(a[j].val, "id"), Get(a[j].val, "node-name")}
        /\ Apart(Lines({"device"}), "bootindex")
        /\ Apart(FlashDrives(a), "unit") /\ (FlashDrives(a) # {} => Lines({"pflash"}) = {})

(* No sequence of changes on the pages makes arguments QEMU refuses of     *)
(* arguments it takes.                                                     *)
QemuTakesThem ==
    [][Saves /\ page # "Arguments" /\ Takes(args) => Takes(args')]_vars

(* The arguments that are saved name files that are there: the new disks   *)
(* and the copies of firmware are made first, and a failure half way is    *)
(* made up for by the next Apply.                                          *)
FilesThere ==
    \A i \in FlashDrives(vm) \cup {d.line : d \in DiskSet(vm)} :
        LET name == Get(vm[i].val, "file")
        IN  name \in {DiskNames[n] : n \in DOMAIN DiskNames} \cup UNION {FilesOf(fw) : fw \in Firmwares}
                => name \in folder

(* "vm.args saved, here or by hand: the pages show it, unless they have    *)
(* changes" (ui/vmpane.cpp): the manager has what the file says once the   *)
(* watcher told of it, loading the page again would not change it, and the *)
(* arguments that the pages edit are those of the manager.  They come to be*)
(* old ones in one way only: vm.args changed under changes that are then   *)
(* taken back, which VmPane::vmChanged() does not hear of.                 *)
KnowsTheFile == told => ToText(vm) = ToText(Parse(file))

ShowsTheArguments == ~Modified => ~IsModified(page, Load(page, args, pending), was)

EditsTheVm == ~Modified => ToText(args) = ToText(vm)

OldWhenTakenBack ==
    ~EditsTheVm' => \/ ~EditsTheVm
                    \/ Modified /\ loaded # ToText(vm) /\ UNCHANGED <<vm, loaded>>

ShowsTheFile == [](KnowsTheFile /\ ShowsTheArguments) /\ [][OldWhenTakenBack]_vars
=============================================================================
