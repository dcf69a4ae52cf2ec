SPECIFICATION FairSystemSpec
CONSTANTS
    NoChecksum = NoChecksum
    NoVersion = NoVersion
    NoRecord = NoRecord
    Registered = {1}
    Uploads = {}
    Jobs = {job}
    Callers = {}
    ReadPath = {}
    Checksums = {c1, c2}
    Versions = {v1}
    TTL = 1
    Faults = {"fetch", "index", "read", "write", "crash"}
    MaxFaults = 1
    MaxDeaths = 1
INVARIANT TrackedContentWasServed
PROPERTY PublicationIsTracked
