SPECIFICATION Spec
CONSTANTS
    Requirements <- Obligations
    RegulatorOf <- Issuer
    Controls <- Catalogue
    FamilyOf <- Families
    SeenBy <- Sources
    Unknown = "invented"
    Hints <- Claims
    Severities <- Grades
    Absent = Absent
    Garbled = Garbled
    AnyRegulator = "any"
    MaxFaults = 1
    Detections <- Detected
    InScope <- Footprint
    KindWeight <- ReferenceKindWeight
    DocTypeWeight <- ReferenceDocTypeWeight
    TopicPoints = 8
    MaxTopicPoints = 24
    OpenGapPoints = 7
    MaxOpenGapPoints = 21
    ConditionalPenalty = 12
    BandFloor <- ReferenceBandFloor
    TopicOwner <- Owners
    RegulatorOwner <- NoRule
    DefaultOwner <- ReferenceOwner
    ReviewBand = 1
INVARIANTS
    MalformedReplyIsFlagged
