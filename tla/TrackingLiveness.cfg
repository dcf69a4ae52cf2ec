SPECIFICATION FairSpec
CONSTANTS
    alice = alice
    bob = bob
    aBank = aBank
    bBank = bBank
    NoItem = NoItem
    NotAssessed = NotAssessed
    NoPrincipal = NoPrincipal
    NoWord = NoWord
    Principals = {alice, bob}
    Officers = {}
    Tenants = {aBank, bBank}
    TenantOf <- TwoTenants
    Changes = {1, 2}
    Bands = {low}
    Controls = {control}
    Requestable = {"accepted_risk"}
    Scans = {s1}
    Requests = {r}
    Faults = {"get", "audit"}
    MaxInFlight = 3
    MaxFaults = 2
PROPERTIES
    AssessedIsTracked
    EscalationReachesConsole
