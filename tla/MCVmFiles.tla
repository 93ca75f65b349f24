----------------------------- MODULE MCVmFiles -----------------------------
(***************************************************************************)
(* The files of VMs for TLC: the firmware of a Fedora for PC and for ARM,  *)
(* what NewVmDialog can be asked for, two scripts to import, and VMs that  *)
(* were written by hand.                                                   *)
(***************************************************************************)
EXTENDS VmFiles

Line(word, rest) == Option(word, rest)
Word(word, rest) == [dash |-> "-", word |-> word, rest |-> rest]

Descriptor(arch, order, code, vars_, format, secure) ==
    [arch |-> arch, order |-> order, code |-> code, vars |-> vars_, format |-> format,
     mode |-> "split", secure |-> secure, smm |-> secure,
     machines |-> IF arch = "aarch64" THEN {"virt"} ELSE {"q35"}]

Fedora == {
    Descriptor("x86_64", 1, "CODE_4M.qcow2", "VARS_4M.qcow2", "qcow2", FALSE),
    Descriptor("x86_64", 2, "CODE.secboot.fd", "VARS.secboot.fd", "raw", TRUE),
    Descriptor("x86_64", 3, "CODE.fd", "VARS.fd", "raw", FALSE),
    Descriptor("aarch64", 1, "EFI.qcow2", "EFI_VARS.qcow2", "qcow2", FALSE) }

Content(fmt, size, head, data) ==
    [fmt |-> fmt, size |-> size, head |-> head, tables |-> "whole", snaps |-> FALSE, data |-> data]

FedoraFiles ==
    [name \in {fw.code : fw \in Fedora} \cup {fw.vars : fw \in Fedora} |->
        LET fw == CHOOSE f \in Fedora : name \in {f.code, f.vars}
        IN  Content(fw.format, IF fw.format = "raw" THEN "2M" ELSE "4M",
                    IF name = fw.code THEN "code" ELSE "vars", "new")]

OutsideFiles ==
    "/old/CODE.fd" :> "CODE.fd" @@ "/nvram/mine.fd" :> "mine.fd"
    @@ "/a/CODE_4M.qcow2" :> "CODE_4M.qcow2" @@ "/b/CODE_4M.qcow2" :> "CODE_4M.qcow2"
    @@ "/a/disk.qcow2" :> "disk.qcow2" @@ "/b/disk.qcow2" :> "disk.qcow2"
    @@ "/discs/disc.iso" :> "disc.iso" @@ "/vms/vm/disc.iso" :> "disc.iso"
    @@ "/dev/shm/mem" :> "mem"

FirstFiles ==
    "/old/CODE.fd" :> Content("raw", "2M", "code", "old")
    @@ "/nvram/mine.fd" :> Content("raw", "2M", "vars", "mine")
    @@ "/a/CODE_4M.qcow2" :> Content("qcow2", "4M", "code", "old")
    @@ "/b/CODE_4M.qcow2" :> Content("qcow2", "4M", "vars", "b")
    @@ "/a/disk.qcow2" :> Content("qcow2", "disk", "system", "a")
    @@ "/b/disk.qcow2" :> Content("qcow2", "disk", "system", "b")

FileNames == DOMAIN FedoraFiles \cup {"disk.qcow2", "mine.fd"}
EndInQcow2 == {"CODE_4M.qcow2", "VARS_4M.qcow2", "EFI.qcow2", "EFI_VARS.qcow2", "CODE_4M.qcow2-2"}

Flash(unit, format, file) ==
    << <<"if", "pflash">>, <<"format", format>>, <<"unit", unit>> >>
        \o (IF unit = "0" THEN <<<<"readonly", "on">>>> ELSE <<>>) \o <<<<"file", file>>>>

FromLibvirt == [
    qemu |-> "/opt/qemu-system-x86_64", base |-> "disk.qcow2" :> "/a/disk.qcow2",
    words |-> <<
        Word("name", <<<<"guest", "old">>>>), Word("machine", One("q35")),
        Word("daemonize", <<>>), Word("pidfile", One("qemu.pid")), Word("enable-kvm", <<>>),
        Word("drive", Flash("0", "raw", "/old/CODE.fd")),
        Word("drive", Flash("1", "raw", "/nvram/mine.fd")),
        Word("device", << <<"", "virtio-vga-gl">>, <<"drm_native_context", "on">> >>),
        Word("drive", << <<"file", "disk.qcow2">>, <<"if", "virtio">> >>),
        Word("cdrom", One("other.iso")),
        Word("device", << <<"", "e1000e">>, <<"mac", "52:54:00:aa">> >>) >>]

FromScript == [
    qemu |-> "", base |-> "disk.qcow2" :> "/b/disk.qcow2",
    words |-> <<
        Word("pflash", One("/a/CODE_4M.qcow2")), Word("pflash", One("/b/CODE_4M.qcow2")),
        [dash |-> "", word |-> "disk.qcow2", rest |-> <<>>],
        Word("hdb", One("/a/disk.qcow2")),
        Word("net", << <<"", "nic">>, <<"macaddr", "52:54:00:aa">> >>) >>]


ByHand(first) == first \o <<
    Line("M", One("q35")), Line("uuid", One("old")),
    Line("object", << <<"", "memory-backend-file">>, <<"id", "mem">>, <<"mem-path", "/dev/shm/mem">> >>),
    Line("drive", Flash("0", "qcow2", "CODE_4M.qcow2")),
    Line("drive", Flash("1", "qcow2", "VARS_4M.qcow2")),
    Line("hda", One("/a/disk.qcow2")),
    Line("drive", << <<"file", "disc.iso">>, <<"media", "cdrom">> >>),
    Line("blockdev", << <<"", "qcow2">>, <<"filename", "/b/disk.qcow2">> >>),
    Line("nic", << <<"", "user">>, <<"mac", "52:54:00:bb">> >>),
    Line("net", << <<"", "nic">>, <<"macaddr", "52:54:00:cc">> >>) >>

InItsFolder ==
    "/vms/vm/CODE_4M.qcow2" :> Content("qcow2", "4M", "code", "new")
    @@ "/vms/vm/VARS_4M.qcow2" :> Content("qcow2", "4M", "vars", "vm")

OnPc(vms) == "x86_64" :> vms @@ "aarch64" :> {}
Named == OnPc({[args |-> ByHand(<<Comment("vm"), Line("name", One("vm"))>>), files |-> InItsFolder]})
MCScripts == OnPc({FromLibvirt, FromScript})
Nameless == OnPc({[args |-> ByHand(<<Comment("vm")>>), files |-> InItsFolder]})

MCOptions ==
    [os : {"Linux", "Windows11", "Windows", "Other"}, memory : {0, 3072}, cpus : {0},
     firmware : {"default", "Bios", "UefiSecureBoot"},
     graphics : {"default", "Accelerated", "Compatible"}, native : BOOLEAN,
     disk : {"", "disk.qcow2", "/a/disk.qcow2"}, iso : {"", "/discs/disc.iso"}]

(* Of these one goes on: its variables are in qcow2, with its snapshots.   *)
MCGoOn ==
    {[os |-> "Linux", memory |-> 0, cpus |-> 0, firmware |-> "default", graphics |-> "default",
      native |-> TRUE, disk |-> "disk.qcow2", iso |-> ""]}

(* What fails together, that ends otherwise than without.                  *)
MCFailing == {{}, {"copy"}, {"copy", "restore"}, {"rename"}, {"back up", "rename"}, {"back up"},
              {"convert"}, {"convert", "remove"}, {"convert", "copy"}}
=============================================================================
