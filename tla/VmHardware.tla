----------------------------- MODULE VmHardware -----------------------------
(***************************************************************************)
(* Machine, accelerator, graphics, disks, firmware and boot order, read    *)
(* from the arguments of a VM and written back by core/vmhardware.cpp and  *)
(* core/firmware.cpp.                                                      *)
(***************************************************************************)
EXTENDS VmConfig

CONSTANTS
    Firmwares,  \* the descriptors on this computer: a set of records with mode,
                \* code, vars, their format, secure (boot), smm, machines
    SecbootNames \* the file names with "secboot" in them

(* The last line of any of some options.                                   *)
After(args, names) == Latest(UNION {IndexesOf(args, name) : name \in names})

InsertAfter(args, names, line) == InsertLine(args, After(args, names), line)

InsertTop(args, names, line) ==
    IF After(args, names) = 0 THEN InsertFirst(args, line) ELSE InsertAfter(args, names, line)

SetKey(args, i, key, value) == SetValueAt(args, i, SetOrRemove(args[i].val, key, value))

RemoveKey(args, lines, key) ==
    FoldSet(LAMBDA i, a : SetValueAt(a, i, RemoveItem(a[i].val, key)), args, lines)

-----------------------------------------------------------------------------
(* Machine and accelerator                                                 *)

TypedMachines(args) ==
    {i \in IndexesOf(args, "machine") : Implied(args[i].val) # "" \/ Has(args[i].val, "type")}

MachineType(args) ==
    LET i == Latest(TypedMachines(args))
    IN  IF i = 0 THEN "" ELSE GetLong(args[i].val, "type")

SetMachineType(args, type) ==
    LET typed  == Latest(TypedMachines(args))
        target == IF typed = 0 THEN IndexOf(args, "machine") ELSE typed
    IN  IF target # 0 THEN SetValueAt(args, target, SetLong(args[target].val, "type", type))
        ELSE IF type = "" THEN args
        ELSE InsertTop(args, {"name"}, Option("machine", <<<<"", type>>>>))

(* The machines of ARM that the code knows by how their names begin.       *)
IsVirt(args) == MachineType(args) = "virt"

AccelMachines(args) == {i \in IndexesOf(args, "machine") : Has(args[i].val, "accel")}

Accel(args) ==
    LET a       == IndexOf(args, "accel")
        machine == MachineKey(args, "accel")
    IN  CASE a # 0 -> GetLong(args[a].val, "accel")
          [] a = 0 /\ machine # "" -> machine
          [] OTHER -> IF IndexOf(args, "enable-kvm") # 0 THEN "kvm" ELSE ""

SetAccel(args, accel) ==
    LET a    == IndexOf(args, "accel")
        m    == First(AccelMachines(args))
        bare == IF accel = "kvm" THEN args ELSE RemoveAll(args, "enable-kvm")
    IN  CASE a # 0 -> SetValueAt(args, a, SetLong(args[a].val, "accel", accel))
          [] a = 0 /\ m # 0 -> SetKey(args, m, "accel", accel)
          [] OTHER ->
               IF accel = "" \/ (accel = "kvm" /\ IndexOf(args, "enable-kvm") # 0) THEN bare
               ELSE InsertTop(bare, {"name", "machine"}, Option("accel", <<<<"", accel>>>>))

AccelProperty(args, key) ==
    LET a == IndexOf(args, "accel") IN IF a = 0 THEN "" ELSE Get(args[a].val, key)

(* -accel takes over from -machine accel= and -enable-kvm; the model has   *)
(* no list of accelerators such as kvm:tcg.                                *)
SetAccelProperty(args, key, value) ==
    IF IndexOf(args, "accel") # 0 THEN SetKey(args, IndexOf(args, "accel"), key, value)
    ELSE IF Accel(args) = "" \/ value = "" THEN args
    ELSE InsertTop(RemoveAll(RemoveKey(args, AccelMachines(args), "accel"), "enable-kvm"),
                   {"name", "machine"},
                   Option("accel", << <<"", Accel(args)>>, <<key, value>> >>))

-----------------------------------------------------------------------------
(* Graphics                                                                *)

(* The cards with OpenGL and those without, as twins.                      *)
To2d == ("virtio-vga-gl" :> "virtio-vga") @@ ("virtio-gpu-gl-pci" :> "virtio-gpu-pci")
Accelerated == DOMAIN To2d
Virtio == {To2d[card] : card \in Accelerated}
Standard == {"VGA", "bochs-display"}
VgaDevices == {"VGA", "virtio-vga", "virtio-vga-gl", "qxl-vga"}
Cards == Accelerated \cup Virtio \cup Standard \cup {"qxl-vga", "ramfb"}

To3d(card) == CHOOSE gl \in Accelerated : To2d[gl] = card

GlCounterpart(card) ==
    CASE card \in Accelerated -> To2d[card] [] card \in Virtio -> To3d(card) [] OTHER -> ""

HasDefaultVga(args) == ~IsVirt(args) /\ IndexOf(args, "nodefaults") = 0

CardLines(args) == DevicesOf(args, Cards)

KindOf(card) ==
    CASE card \in Accelerated -> "Accelerated" [] card \in Virtio -> "Virtio"
      [] card \in Standard -> "Standard" [] OTHER -> "Custom"

(* device: that of the only card of a -device line; vga: that of -vga.     *)
CardKind(args, cards, device, vga) ==
    IF IndexOf(args, "nographic") # 0 \/ cards > 1 THEN "Custom"
    ELSE IF device # ""
    THEN IF vga \notin {"", "none"} /\ device \notin VgaDevices THEN "Custom" ELSE KindOf(device)
    ELSE CASE vga = "virtio" -> "Virtio"
           [] vga = "none" \/ (vga = "" /\ ~HasDefaultVga(args)) -> "None"
           [] vga = "std" \/ (vga = "" /\ HasDefaultVga(args)) -> "Standard"
           [] OTHER -> "Custom"

GraphicsOf(kind, card, device, size, display) ==
    [kind    |-> kind,
     device  |-> device,
     native  |-> kind = "Accelerated" /\ Flag(card, "drm_native_context", FALSE),
     venus   |-> kind = "Accelerated" /\ Flag(card, "venus", FALSE),
     hostmem |-> IF kind # "Custom" /\ device # "" THEN Else(size, 0) ELSE 0,
     display |-> display]

ReadGraphics(args, cards, card, vga) ==
    LET device == IF cards = 1 THEN Implied(card) ELSE ""
    IN  GraphicsOf(CardKind(args, cards, device, vga), card,
                   IF IndexOf(args, "nographic") # 0 THEN "" ELSE device,
                   ParseMiB(Get(card, "hostmem"), 0),
                   Implied(ValueOf(args, LastIndex(args, "display"))))

Graphics(args) ==
    ReadGraphics(args, Cardinality(CardLines(args)), ValueOf(args, First(CardLines(args))),
                 Implied(ValueOf(args, LastIndex(args, "vga"))))

(* No card of -vga besides that of -device, or none at all.                *)
NoVgaCard(args, after) ==
    LET vga == LastIndex(args, "vga")
    IN  CASE vga # 0 -> SetValueAt(args, vga, <<<<"", "none">>>>)
          [] vga = 0 /\ HasDefaultVga(args) ->
               InsertLine(args, after, Option("vga", <<<<"", "none">>>>))
          [] OTHER -> args

NoCardAt(args, line, display) ==
    CASE line # 0 -> NoVgaCard(RemoveLines(args, {line}), line - 1)
      [] line = 0 /\ display # 0 -> NoVgaCard(args, display - 1)
      [] OTHER -> NoVgaCard(args, After(args, {"accel", "machine"}))

NoCard(args) == NoCardAt(args, First(CardLines(args)), LastIndex(args, "display"))

Driver(args, now, g) ==
    CASE g.kind = "Accelerated" ->
           (CASE g.device \in Accelerated -> g.device
              [] g.device \notin Accelerated /\ now.kind = "Accelerated" -> now.device
              [] g.device \notin Accelerated /\ now.kind = "Virtio" /\ now.device # "" ->
                   To3d(now.device)
              [] OTHER -> IF IsVirt(args) THEN "virtio-gpu-gl-pci" ELSE "virtio-vga-gl")
      [] g.kind = "Virtio" ->
           (CASE g.device \in Virtio -> g.device
              [] g.device \notin Virtio /\ now.kind = "Virtio" /\ now.device # "" -> now.device
              [] g.device \notin Virtio /\ now.kind = "Accelerated" -> To2d[now.device]
              [] OTHER -> IF IsVirt(args) THEN "virtio-gpu-pci" ELSE "virtio-vga")
      [] OTHER -> IF g.device \in Standard THEN g.device
                  ELSE IF now.kind = "Standard" /\ now.device # "" THEN now.device ELSE "VGA"

(* Another kind of card keeps what any device has.                         *)
CommonItems(v, driver) ==
    LET virtio == Accelerated \cup Virtio
    IN  IF v # <<>> /\ (Implied(v) \in virtio) # (driver \in virtio)
        THEN SelectSeq(v, LAMBDA item : item[1] \in {"id", "bus", "addr"}) ELSE v

PlainCard(v, driver) ==
    RemoveItem(RemoveItem(SetImplied(CommonItems(v, driver), driver), "drm_native_context"),
               "venus")

SetIf(v, cond, key, value) == IF cond THEN SetItem(v, key, value) ELSE v

WithBlob(v) == SetIf(v, ~Flag(v, "blob", FALSE), "blob", "on")

WithHostmem(v, mib, before) ==
    SetIf(v, ~(Has(v, "hostmem") /\ mib = before), "hostmem", FormatMiB(mib))

(* The line of the card.                                                   *)
CardValue(v, driver, now, g) ==
    IF driver \in Accelerated /\ (g.native \/ g.venus)
    THEN WithHostmem(WithBlob(SetIf(SetIf(PlainCard(v, driver), g.native, "drm_native_context", "on"),
                                    g.venus, "venus", "on")),
                     Else(g.hostmem, Else(now.hostmem, 4096)), now.hostmem)
    ELSE PlainCard(v, driver)

PlaceCard(args, card, display, v) ==
    CASE card # 0 -> SetValueAt(args, card, v)
      [] card = 0 /\ display # 0 -> InsertAt(args, display, Option("device", v))
      [] OTHER -> InsertAfter(args, {"vga", "accel", "machine"}, Option("device", v))

CardAlone(args, driver) ==
    IF driver \in VgaDevices /\ LastIndex(args, "vga") = 0 THEN args
    ELSE NoVgaCard(args, First(CardLines(args)))

(* Native contexts need a key of the accelerator.                          *)
HonorsPat(args, native) ==
    IF native /\ Accel(args) = "kvm" /\ AccelProperty(args, "honor-guest-pat") = ""
    THEN SetAccelProperty(args, "honor-guest-pat", "on") ELSE args

SetDriver(args, card, driver, now, g) ==
    HonorsPat(CardAlone(PlaceCard(args, card, LastIndex(args, "display"),
                                  CardValue(ValueOf(args, card), driver, now, g)),
                        driver), g.native)

SetCard(args, now, g) ==
    IF g.kind = "None" THEN NoCard(args)
    ELSE SetDriver(args, First(CardLines(args)), Driver(args, now, g), now, g)

(* The keys each window takes: the others go when it changes.              *)
DisplayKeys(display) ==
    CASE display = "sdl" -> {"gl", "window-close"} [] display = "gtk" -> {"gl", "zoom-to-fit"}
      [] OTHER -> {}

(* gl is "on", "off" or "" to leave it.                                    *)
NewWindow(display, gl) ==
    <<<<"", display>>>>
    \o IF gl /\ display \in {"sdl", "gtk"} THEN <<<<"gl", "on">>>> ELSE <<>>

WindowAfter(args, cards) ==
    IF cards = {} THEN After(args, {"vga", "accel", "machine"})
    ELSE Max({Latest(cards), LastIndex(args, "vga")})

KeptWindow(old, display) ==
    IF display \in {"", Implied(old)} THEN old
    ELSE SetImplied(SelectSeq(old, LAMBDA item :
             item[1] \in DisplayKeys(display) /\ item[2] # Bare), display)

WindowGl(v, gl) ==
    CASE \/ Implied(v) \in {"sdl", "gtk"} /\ gl = "off"
         \/ Implied(v) = "none" -> RemoveItem(v, "gl")
      [] Implied(v) \in {"sdl", "gtk"} /\ gl = "on" ->
           SetIf(v, GetOr(v, "gl", "off") = "off", "gl", "on")
      [] OTHER -> v

SetWindowAt(args, line, display, gl, accelerated) ==
    CASE line = 0 /\ display = "" -> args
      [] line = 0 /\ display # "" ->
           InsertLine(args, WindowAfter(args, CardLines(args)),
               Option("display", NewWindow(display, gl = "on" \/ (gl = "" /\ accelerated))))
      [] OTHER -> SetValueAt(args, line, WindowGl(KeptWindow(args[line].val, display), gl))

SetWindow(args, display, gl, accelerated) ==
    SetWindowAt(args, LastIndex(args, "display"), display, gl, accelerated)

SameCard(now, g) ==
    /\ g.kind = now.kind /\ g.device \in {"", now.device}
    /\ g.native = now.native /\ g.venus = now.venus
    /\ g.hostmem \in {0, now.hostmem}

ChangeGraphics(args, now, g) ==
    LET custom == "Custom" \in {now.kind, g.kind}
    IN  SetWindow(IF custom \/ SameCard(now, g) THEN args ELSE SetCard(args, now, g), g.display,
                  IF custom \/ g.kind = now.kind THEN ""
                  ELSE IF g.kind = "Accelerated" THEN "on" ELSE "off",
                  ~custom /\ g.kind = "Accelerated")

SetGraphics(args, g) == ChangeGraphics(args, Graphics(args), g)

-----------------------------------------------------------------------------
(* Disks                                                                   *)

HardDisks == {"hda", "hdb"}

BusOf(driver) ==
    CASE driver = "virtio-blk-pci" -> "Virtio" [] driver \in {"ide-hd", "ide-cd"} -> "Sata"
      [] driver \in {"scsi-hd", "scsi-cd"} -> "Scsi" [] driver = "nvme" -> "Nvme"
      [] OTHER -> "Other"

InterfaceBus(iface) ==
    CASE iface = "virtio" -> "Virtio" [] iface = "ide" -> "Sata" [] iface = "scsi" -> "Scsi"
      [] OTHER -> "Other"

BootIndex(v) == IF ~Has(v, "bootindex") THEN -1 ELSE ToInt(Get(v, "bootindex"))

(* The disk of line i, of which devices is the set of its -device lines.   *)
BusAt(l, args, device) ==
    CASE l.name = "blockdev" -> "Other"
      [] l.name = "drive" /\ device # 0 -> BusOf(Implied(args[device].val))
      [] l.name = "drive" /\ device = 0 -> InterfaceBus(GetOr(l.val, "if", "ide"))
      [] OTHER -> "Sata"

DiskOf(args, i, l, devices, device) ==
    [line |-> i, device |-> device,
     file |-> CASE l.name = "drive" -> Get(l.val, "file")
                [] l.name = "blockdev" -> Get(l.val, "filename") [] OTHER -> Implied(l.val),
     cdrom |-> \/ l.name = "cdrom"
               \/ l.name = "drive" /\ Get(l.val, "media") = "cdrom"
               \/ \E j \in devices : Implied(args[j].val) \in {"ide-cd", "scsi-cd"},
     bus |-> BusAt(l, args, device),
     bootindex |-> LET indexed == {j \in devices : Has(args[j].val, "bootindex")}
                   IN  IF indexed = {} THEN -1 ELSE BootIndex(args[Max(indexed)].val),
     editable |-> /\ l.name # "blockdev"
                  /\ l.name = "drive" /\ Get(l.val, "if") = "none" => device # 0]

(* Of an if=none drive; the last one tells the bus.                        *)
DriveDevices(args, l) ==
    {j \in IndexesOf(args, "device") :
        /\ l.name = "drive" /\ Get(l.val, "if") = "none"
        /\ Get(l.val, "id") # "" /\ Get(args[j].val, "drive") = Get(l.val, "id")}

DiskWith(args, i, devices) == DiskOf(args, i, args[i], devices, Latest(devices))
DiskAt(args, i) == DiskWith(args, i, DriveDevices(args, args[i]))

Disks(args) ==
    LET lines == InOrder({i \in DOMAIN args :
            /\ args[i].kind = "Option"
            /\ \/ args[i].name = "drive" /\ Get(args[i].val, "if") \notin {"pflash", "sd", "floppy"}
               \/ args[i].name \in HardDisks \cup {"cdrom"}
               \/ args[i].name = "blockdev" /\ Has(args[i].val, "filename")})
    IN  [n \in DOMAIN lines |-> DiskAt(args, lines[n])]

DiskSet(args) == ToSet(Disks(args))

(* Not the code: an id without a look at the others.                       *)
FirstId(args, prefix) == prefix \o "0"

(* An id no -drive, -device, -blockdev... has yet.                         *)
UniqueId(args, prefix) ==
    LET used == UNION {{Get(args[i].val, "id"), Get(args[i].val, "node-name")} :
                           i \in {j \in DOMAIN args : args[j].kind = "Option"}}
    IN  prefix \o ToString(Min({n \in 0..Len(args) : prefix \o ToString(n) \notin used}))

(* After the last disk, else the firmware.                                 *)
LastOf(lines, otherwise) == IF lines # {} THEN Max(lines) ELSE otherwise

DiskAnchor(args) ==
    LastOf(UNION {{d.line, d.device} : d \in DiskSet(args)}, LastIndex(args, "drive"))

(* A drive behind a line, and the device of the drive behind that.         *)
DriveAt(args, after, drive, id, device) ==
    InsertLine(InsertLine(args, after, Option("drive", drive \o << <<"if", "none">>, <<"id", id>> >>)),
               after + 1, Option("device", device))

ScsiAt(args, after, drive, cdrom, id, bus) ==
    DriveAt(args, after, drive, id,
            << <<"", IF cdrom THEN "scsi-cd" ELSE "scsi-hd">>, <<"drive", id>>,
               <<"bus", bus \o ".0">> >>)

ScsiDrive(args, after, drive, cdrom, bus) ==
    ScsiAt(args, after, drive, cdrom, UniqueId(args, IF cdrom THEN "cd" ELSE "disk"), bus)

(* On the controller there is, or behind one that is new.                  *)
OldScsi(args, there, anchor, drive, cdrom) ==
    ScsiDrive(args, Max({anchor, there}), drive, cdrom, Get(args[there].val, "id"))

NewScsi(args, anchor, drive, cdrom, scsi) ==
    ScsiDrive(InsertLine(args, anchor,
                  Option("device", << <<"", "virtio-scsi-pci">>, <<"id", scsi>> >>)),
              IF anchor # 0 THEN anchor + 1 ELSE Len(args) + 1, drive, cdrom, scsi)

Controllers(args) == {i \in DevicesOf(args, {"virtio-scsi-pci"}) : Has(args[i].val, "id")}

InsertScsi(args, drive, cdrom) ==
    IF Controllers(args) # {}
    THEN OldScsi(args, First(Controllers(args)), DiskAnchor(args), drive, cdrom)
    ELSE NewScsi(args, DiskAnchor(args), drive, cdrom, UniqueId(args, "scsi"))

AddDisk(args, file, bus) ==
    LET value == << <<"file", file>>, <<"format", "qcow2">> >>
        iface == <<"if", IF bus = "Sata" THEN "ide" ELSE "virtio">>
    IN  IF bus = "Scsi" THEN InsertScsi(args, Append(value, <<"discard", "unmap">>), FALSE)
        ELSE InsertLine(args, DiskAnchor(args),
                        Option("drive", value \o <<iface, <<"discard", "unmap">>>>))

AddCdrom(args, iso) ==
    LET value == (IF iso = "" THEN <<>> ELSE <<<<"file", iso>>>>)
                     \o << <<"media", "cdrom">>, <<"readonly", "on">> >>
    IN  IF IsVirt(args) THEN InsertScsi(args, value, TRUE)
        ELSE InsertLine(args, DiskAnchor(args), Option("drive", value))

(* Not the code: the line above first, which moves the one below.          *)
RemoveDownwards(args, disk) ==
    RemoveLines(RemoveLines(args, {Min({disk.line, disk.device})}), {Max({disk.line, disk.device})})

(* The lines by number, the greater first: the numbers may be out of date, *)
(* and past the end of the list, where the model removes nothing.          *)
RemoveDisk(args, disk) ==
    RemoveLines(RemoveLines(args, {Max({disk.line, disk.device})}), {Min({disk.line, disk.device})})

SetDisc(args, drive, iso) ==
    LET name == args[drive.line].name
    IN  CASE name = "cdrom" /\ iso # "" -> SetValueAt(args, drive.line, <<<<"", iso>>>>)
          [] name = "cdrom" /\ iso = "" ->
               [args EXCEPT ![drive.line] =
                   Option("drive", << <<"index", "2">>, <<"media", "cdrom">>, <<"readonly", "on">> >>)]
          [] OTHER -> SetKey(args, drive.line, "file", iso)

-----------------------------------------------------------------------------
(* Firmware                                                                *)

IsSecureFlash(l) ==
    /\ l.kind = "Option" /\ l.name = "global"
    /\ Get(l.val, "driver") = "cfi.pflash01" /\ Get(l.val, "property") = "secure"

FlashDrives(args) == {i \in IndexesOf(args, "drive") : Get(args[i].val, "if") = "pflash"}

(* The code rather than the variable store.                                *)
FlashCode(args) ==
    LET first == First(FlashDrives(args))
        code  == Latest({i \in FlashDrives(args) :
                     i = first \/ Get(args[i].val, "unit") = "0" \/ Flag(args[i].val, "readonly", FALSE)})
    IN  IF code # 0 THEN Get(args[code].val, "file")
        ELSE LET i == IndexOf(args, "pflash") IN IF i = 0 THEN "" ELSE Implied(args[i].val)

FirmwareKind(args) ==
    CASE \/ IndexOf(args, "bios") # 0
         \/ \E i \in IndexesOf(args, "machine") : Has(args[i].val, "pflash0") -> "Custom"
      [] OTHER -> IF FlashDrives(args) \cup IndexesOf(args, "pflash") = {} THEN "Bios"
                  ELSE LET code  == FlashCode(args)
                           known == {fw \in Firmwares : fw.code = code}
                       IN  IF \/ \E fw \in known : fw.secure
                              \/ known = {} /\ code \in SecbootNames
                           THEN "UefiSecureBoot" ELSE "Uefi"

SecureFlash(args) == {i \in DOMAIN args : IsSecureFlash(args[i])}

UseBios(args) ==
    RemoveLines(args, FlashDrives(args) \cup IndexesOf(args, "pflash") \cup SecureFlash(args))

(* The descriptor for a machine, if there is one: a set of one or none.    *)
Supports(fw, machine) == machine \in fw.machines

FindFirmware(secureBoot, machine) ==
    {fw \in Firmwares :
        fw.secure = secureBoot /\ Supports(fw, IF machine = "" THEN "q35" ELSE machine)}

(* The -drive, and with SMM the -machine and -global lines of a firmware;  *)
(* the files of the VM folder are copied elsewhere.  A combined image holds*)
(* the variables too, and is written to; only a split one has vars.        *)
FlashDrive(fw, unit, file) ==
    Option("drive", << <<"if", "pflash">>, <<"format", fw.format>>, <<"unit", unit>> >>
        \o (IF unit = "0" /\ fw.mode # "combined" THEN <<<<"readonly", "on">>>> ELSE <<>>) \o <<<<"file", file>>>>)

AddSmm(args, machine) ==
    Add(IF machine = 0
        THEN Add(args, Option("machine", << <<"", "q35">>, <<"smm", "on">> >>))
        ELSE SetKey(args, machine, "smm", "on"),
        Option("global", << <<"driver", "cfi.pflash01">>, <<"property", "secure">>,
                            <<"value", "on">> >>))

WithSmm(args, smm) == IF smm THEN AddSmm(args, LastIndex(args, "machine")) ELSE args

ApplyFirmware(args, fw) ==
    LET left == RemoveLines(args, FlashDrives(args) \cup IndexesOf(args, "bios") \cup SecureFlash(args))
        code == Add(left, FlashDrive(fw, "0", fw.code))
    IN  WithSmm(IF fw.mode = "split" THEN Add(code, FlashDrive(fw, "1", fw.vars)) ELSE code, fw.smm)

-----------------------------------------------------------------------------
(* Boot order                                                              *)

BootMenu(args) ==
    LET line == LastIndex(args, "boot") IN line # 0 /\ Flag(args[line].val, "menu", FALSE)

(* An option that has nothing left to say goes.                            *)
SetOrRemoveLine(args, i, v) == IF v = <<>> THEN RemoveLines(args, {i}) ELSE SetValueAt(args, i, v)

SetBootMenu(args, on) ==
    LET line == LastIndex(args, "boot")
    IN  CASE line = 0 /\ on -> InsertTop(args, {"accel", "machine"}, Option("boot", <<<<"menu", "on">>>>))
          [] line = 0 /\ ~on -> args
          [] OTHER -> SetOrRemoveLine(args, line,
                          SetOrRemove(args[line].val, "menu", IF on THEN "on" ELSE ""))

NicLines(args) == {i \in IndexesOf(args, "device") : Has(args[i].val, "netdev")}

Lowest(disks, nics) ==
    LET lowest == Min({d.bootindex : d \in disks} \cup nics)
        best   == {d \in disks : d.bootindex = lowest}
    IN  CASE best = {} -> "Network"
          [] OTHER -> IF (CHOOSE d \in best : \A e \in best : d.line <= e.line).cdrom
                      THEN "Cdrom" ELSE "Disk"

BootOrder(v) ==
    LET order == GetOr(v, "order", Implied(v))
    IN  CASE order = "c" -> "Disk" [] order = "d" -> "Cdrom" [] order = "n" -> "Network"
          [] OTHER -> "Default"

FirstOf(args, disks, nics) ==
    IF disks \cup nics # {} THEN Lowest(disks, {BootIndex(args[i].val) : i \in nics})
    ELSE BootOrder(ValueOf(args, LastIndex(args, "boot")))

FirstBootDevice(args) ==
    FirstOf(args, {d \in DiskSet(args) : d.bootindex >= 0},
            {i \in NicLines(args) : Has(args[i].val, "bootindex")})

(* Makes a disk an if=none drive with a device in the line after it; a     *)
(* disk of another kind of drive stays as it is.                           *)
SplitValue(l) ==
    CASE l.name = "drive" ->
           SelectSeq(l.val, LAMBDA item : item[1] \notin {"if", "index", "bus", "unit"})
      [] l.name = "cdrom" -> << <<"file", Implied(l.val)>>, <<"media", "cdrom">> >>
      [] OTHER -> <<<<"file", Implied(l.val)>>>>

SplitDevice(l, cdrom) ==
    CASE l.name = "drive" /\ GetOr(l.val, "if", "ide") = "virtio" -> "virtio-blk-pci"
      [] l.name # "drive" \/ GetOr(l.val, "if", "ide") = "ide" ->
           IF cdrom THEN "ide-cd" ELSE "ide-hd"
      [] OTHER -> ""

SplitInto(args, line, id, driver) ==
    InsertLine([args EXCEPT ![line] =
                    Option("drive", SplitValue(@) \o << <<"if", "none">>, <<"id", id>> >>)],
               line, Option("device", << <<"", driver>>, <<"drive", id>> >>))

CanSplit(args, d) == SplitDevice(args[d.line], d.cdrom) # ""

SplitDrive(args, d) ==
    SplitInto(args, d.line, UniqueId(args, IF d.cdrom THEN "cd" ELSE "disk"),
              SplitDevice(args[d.line], d.cdrom))

UnbootLine(args, boot) ==
    IF boot = 0 THEN args
    ELSE SetOrRemoveLine(args, boot,
             SelectSeq(args[boot].val, LAMBDA item : item[1] \notin {"", "order"}))

ClearBoot(args) ==
    UnbootLine(RemoveKey(args, {d.device : d \in {e \in DiskSet(args) : e.bootindex >= 0}}
                                   \cup NicLines(args), "bootindex"),
               LastIndex(args, "boot"))

BootFrom(args, d) ==
    IF d.device # 0 THEN SetKey(args, d.device, "bootindex", "1")
    ELSE SetKey(SplitDrive(args, d), d.line + 1, "bootindex", "1")

(* bootindex=1 on the first such device that can take it, if there is one. *)
BootFirst(args, fit) == IF fit = <<>> THEN args ELSE BootFrom(args, fit[1])

BootNic(args, nic) == IF nic = 0 THEN args ELSE SetKey(args, nic, "bootindex", "1")

SetFirst(args, device) ==
    CASE device = "Network" -> BootNic(args, First(NicLines(args)))
      [] device \in {"Disk", "Cdrom"} ->
           BootFirst(args, SelectSeq(Disks(args), LAMBDA d :
               /\ d.cdrom = (device = "Cdrom") /\ d.editable
               /\ d.device # 0 \/ CanSplit(args, d)))
      [] OTHER -> args

SetFirstBootDevice(args, device) == SetFirst(ClearBoot(args), device)
=============================================================================
