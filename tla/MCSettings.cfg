SPECIFICATION Spec
CONSTANTS
    Firmwares <- Uefi
    SecbootNames = {"secboot.fd", "gone.secboot.fd", "old.secboot.fd"}
    Unreadable = {"gone.secboot.fd"}
    Texts <- Written
    HandTexts <- HandWritten
    Folder <- InFolder
    HostPci <- PciCards
    HostUsb <- UsbSticks
    Pages = {"General", "System", "Display", "Storage", "Shares", "Pci", "Usb", "Arguments"}
    MaxEvents = 2
    RemovesMore = FALSE
INVARIANT FilesThere
PROPERTIES ShowsTheFile ReadsBack OthersStay QemuTakesThem
CHECK_DEADLOCK FALSE
