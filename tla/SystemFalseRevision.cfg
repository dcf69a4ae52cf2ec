SPECIFICATION SystemSpec
CONSTANTS
    NoChecksum = NoChecksum
    NoVersion = NoVersion
    NoRecord = NoRecord
    Registered = {1}
    Uploads = {}
    Jobs = {job}
    Callers = {}
    ReadPath = {}
    Checksums = {c1}
    Versions = {v1}
    TTL = 1
    Faults = {"fetch"}
    MaxFaults = 1
    MaxDeaths = 0
INVARIANT RevisionMeansRepublished
