----------------------------- MODULE MCSettings -----------------------------
(***************************************************************************)
(* The Settings tab for TLC: arguments as the templates write them, as     *)
(* they are written by hand for ARM and for an old PC, and bare ones.      *)
(***************************************************************************)
EXTENDS Settings

Line(word, rest) == [lead |-> "-", word |-> word, rest |-> rest]
Hash(word, rest) == [lead |-> "#", word |-> word, rest |-> rest]
One(value) == <<<<"", value>>>>

Template == <<
    Line("name", One("vm")), Line("machine", One("q35")), Line("accel", One("kvm")),
    Line("m", One("2G")), Line("smp", One("2")), Line("cpu", One("host")),
    Line("device", One("virtio-vga-gl")), Line("display", << <<"", "sdl">>, <<"gl", "on">> >>),
    Line("drive", << <<"file", "disk.qcow2">>, <<"format", "qcow2">>, <<"if", "virtio">> >>),
    Line("drive", << <<"media", "cdrom">>, <<"readonly", "on">> >>),
    Line("netdev", << <<"", "user">>, <<"id", "net">> >>),
    Line("device", << <<"", "virtio-net-pci">>, <<"netdev", "net">> >>),
    Line("device", One("qemu-xhci")) >>

Arm == <<
    Hash("comment", <<>>), Hash("qemu", One("~/qemu")),
    Line("name", << <<"guest", "vm">>, <<"debug-threads", "on">> >>),
    Line("M", << <<"", "virt">>, <<"accel", "kvm">>, <<"memory-backend", "mem">> >>),
    Line("object", << <<"", "memory-backend-memfd">>, <<"id", "mem">>, <<"size", "1G">> >>),
    Line("smp", << <<"cores", "2">>, <<"threads", "1">> >>),
    Line("drive", << <<"if", "pflash">>, <<"unit", "0">>, <<"readonly", "on">>, <<"file", "code.fd">> >>),
    Line("drive", << <<"if", "pflash">>, <<"unit", "1">>, <<"file", "vars.fd">> >>),
    Line("device", << <<"", "virtio-gpu-pci">>, <<"id", "gpu">>, <<"hostmem", "1G">> >>),
    Line("device", << <<"", "virtio-scsi-pci">>, <<"id", "scsi0">> >>),
    Line("drive", << <<"file", "disk.qcow2">>, <<"if", "none">>, <<"id", "disk0">> >>),
    Line("device", << <<"", "scsi-hd">>, <<"drive", "disk0">>, <<"bus", "scsi0.0">>, <<"bootindex", "1">> >>),
    Hash("share", << <<"tag", "old">>, <<"path", "/old">>, <<"extra", "x">> >>) >>

OldPc == <<
    Line("M", One("pc")), Line("enable-kvm", <<>>),
    Line("m", << <<"size", "1024">>, <<"slots", "2">> >>),
    Line("M", << <<"", "pc">>, <<"memory-backend", "ram">> >>),
    Line("object", << <<"", "memory-backend-ram">>, <<"id", "ram">>, <<"size", "1024M">> >>),
    Line("vga", One("std")), Line("boot", << <<"", "d">>, <<"menu", "on">> >>),
    Line("drive", << <<"if", "pflash">>, <<"unit", "0">>, <<"file", "old.secboot.fd">> >>),
    Line("hda", One("disk.qcow2")), Line("cdrom", One("old.iso")),
    Line("device", << <<"", "vfio-pci">>, <<"host", "03:00.0">>, <<"x-vga", "on">> >>),
    Line("device", << <<"", "vfio-pci">>, <<"host", "0000:05:00.0">> >>),
    Line("device", << <<"", "usb-host">>, <<"vendorid", "0x1">>, <<"productid", "0x1">> >>),
    Hash("written by hand", <<>>) >>

(* What is put in vm.args by hand.                                         *)
ByHand == << Line("name", One("vm")), Line("m", One("1G")), Line("bios", One("bios.bin")),
             Line("device", One("qxl-vga")) >>

(* Arguments that lead to what README.md tells of: an accelerator alone in *)
(* its -machine, and drives before all of their devices.                   *)
Drives == <<
    Line("machine", One("q35")), Line("m", One("1G")),
    Line("drive", << <<"file", "disk.qcow2">>, <<"if", "none">>, <<"id", "a">> >>),
    Line("drive", << <<"file", "disk2.qcow2">>, <<"if", "none">>, <<"id", "b">> >>),
    Line("device", << <<"", "virtio-blk-pci">>, <<"drive", "a">> >>),
    Line("device", << <<"", "virtio-blk-pci">>, <<"drive", "b">> >>),
    Line("netdev", << <<"", "user">>, <<"id", "net">> >>),
    Line("device", << <<"", "virtio-net-pci">>, <<"netdev", "net">> >>) >>

Written == {Template, Arm, OldPc}
HandWritten == {ByHand}
Apart == {Drives, Template}

Descriptor(mode, code, vars_, format, secure, machines) ==
    [mode |-> mode, code |-> code, vars |-> vars_, format |-> format, secure |-> secure,
     smm |-> secure, machines |-> machines]

Uefi == {
    Descriptor("split", "code.fd", "vars.fd", "raw", FALSE, {"q35", "virt"}),
    Descriptor("combined", "both.fd", "", "raw", FALSE, {"pc"}),
    Descriptor("split", "secboot.fd", "secvars.fd", "qcow2", TRUE, {"q35"}),
    Descriptor("split", "gone.secboot.fd", "gone.vars.fd", "raw", TRUE, {"pc"}) }

InFolder == {"disk.qcow2", "code.fd", "vars.fd"}
PciCards == <<"0000:03:00.0", "0000:03:00.1">>
UsbSticks == <<"0x1:0x1", "0x1:0x2">>
=============================================================================
