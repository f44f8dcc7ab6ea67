\* Four tasks queue on one disk and use the other one of its controller.
SPECIFICATION DeviceSpec
CONSTANTS
    Task = {idle, a, b, c, d}
    Idle = idle
    Boot = boot
    hda = hda
    hdb = hdb
    Disk = {hda, hdb}
    Request <- MixedRequests
    NoRequest = none
SYMMETRY TaskSymmetry
INVARIANTS DeviceTypeOK OneServed InterruptComes
PROPERTIES SkipsNobody ImplementsDisk
