SPECIFICATION Spec
CONSTANTS
    NoChecksum = NoChecksum
    NoVersion = NoVersion
    NoRecord = NoRecord
    Registered = {1}
    Uploads = {}
    Jobs = {job}
    Callers = {api}
    ReadPath = {api}
    Checksums = {c1, c2}
    Versions = {v1, v2}
    TTL = 1
    Faults = {"fetch", "refuse", "index", "read", "write", "crash"}
    MaxFaults = 2
INVARIANTS
    StaleIffDue
    HiddenOnlyAfterFailure
    RevisionIsGenuine
    DriftHasACause
SYMMETRY Alike
