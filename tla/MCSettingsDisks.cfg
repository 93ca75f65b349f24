SPECIFICATION Spec
CONSTANTS
    Firmwares <- Uefi
    SecbootNames = {"secboot.fd", "gone.secboot.fd", "old.secboot.fd"}
    Unreadable = {"gone.secboot.fd"}
    Texts <- Apart
    HandTexts <- HandWritten
    Folder <- InFolder
    HostPci <- PciCards
    HostUsb <- UsbSticks
    Pages = {"Storage"}
    MaxEvents = 2
    RemovesMore = TRUE
PROPERTY OthersStay
CHECK_DEADLOCK FALSE
