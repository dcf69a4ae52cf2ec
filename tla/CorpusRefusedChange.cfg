SPECIFICATION Spec
CONSTANTS
    NoChecksum = NoChecksum
    NoVersion = NoVersion
    NoRecord = NoRecord
    Registered = {1}
    Uploads = {}
    Jobs = {job}
    Callers = {}
    ReadPath = {}
    Checksums = {c1, c2}
    Versions = {v1}
    TTL = 1
    Faults = {"refuse"}
    MaxFaults = 1
PROPERTY RealChangeStaysVisible
