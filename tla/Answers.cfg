SPECIFICATION Spec
CONSTANTS
    Sources = {s1, s2}
    Invented = invented
    HighRisk = {s1}
    Confidences <- Tenths
    UserTexts <- Asked
    ModelTexts <- Written
    Environments <- StartedIn
    MaxFaults = 1
    MaxTurns = 2
    MaxTools = 1
    Variations = {"profile", "guardrail", "redaction", "routing", "grounding", "template", "console", "bearer", "audience", "tenants", "origins", "frames", "demo", "policy"}
INVARIANTS
    TypeOK
    RedactedStaysRedacted
    BlockedTextIsWithheld
    WeakAnswersNeedTwo
    DisclosedRoutingIsTrue
    FailedHandOffIsAnOutage
    ApiRowsHaveAVouchedActor
    RowsTellTheReply
    AllowedTurnsAreTrue
PROPERTIES
    KeepsPromise
CHECK_DEADLOCK FALSE
