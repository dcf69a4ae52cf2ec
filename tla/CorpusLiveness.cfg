SPECIFICATION FairSpec
CONSTANTS
    NoChecksum = NoChecksum
    NoVersion = NoVersion
    NoRecord = NoRecord
    Registered = {1}
    Uploads = {2}
    Jobs = {job}
    Callers = {api}
    ReadPath = {}
    Checksums = {c1, c2}
    Versions = {v1}
    TTL = 1
    Faults = {"fetch", "refuse", "index", "read", "write", "crash"}
    MaxFaults = 1
INVARIANT TypeOK
PROPERTIES
    StaleIsRefreshed
    DriftHeals
