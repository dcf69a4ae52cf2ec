SPECIFICATION Spec
CONSTANTS
    alice = alice
    bob = bob
    aBank = aBank
    bBank = bBank
    NoItem = NoItem
    NotAssessed = NotAssessed
    NoPrincipal = NoPrincipal
    NoWord = NoWord
    Principals = {alice, bob}
    Officers = {alice}
    Tenants = {aBank, bBank}
    TenantOf <- TwoTenants
    Changes = {1}
    Bands = {low}
    Controls = {}
    Requestable = {"in_progress", "accepted_risk"}
    Scans = {s1, s2}
    Requests = {r, q}
    Faults = {"get", "put", "audit", "route", "crash"}
    MaxInFlight = 3
    MaxFaults = 1
INVARIANTS
    TypeOK
    OfficersStayInTheirTenant
    LastWordStands
    ClosureLeavesTrail
PROPERTIES
    RowsAreVersions
    OwnershipMovesOnlyByRace
SYMMETRY Alike
CONSTRAINT FewInFlight
VIEW WithoutConsole
