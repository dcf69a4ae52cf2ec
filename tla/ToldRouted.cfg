SPECIFICATION Spec
CONSTANTS
    Sources = {s1, s2}
    Invented = invented
    HighRisk = {s1}
    Confidences <- Tenths
    UserTexts <- Asked
    ModelTexts <- Written
    Environments <- StartedIn
    MaxFaults = 0
    MaxTurns = 0
    MaxTools = 0
    Variations = {}
INVARIANTS
    ToldRoutedIsRouted
CHECK_DEADLOCK FALSE
