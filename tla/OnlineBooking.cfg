\* Calendar, prices, form, terms and submission, one of them moving in each behaviour.
CONSTANTS
    None = None
    Workers = {w1, w2}
    Customers = {p1, p2}
    LastDay = 2
    Length = 3
    Jobs = {1, 2}
    OpenHours <- MCOpenHours
    SpecialDays = {1}
    SpecialHours <- MCSpecialHours
    Settings <- MCSettings
    Advance = 1
    MaxAmount = 2
    AddOns = {a1, a2}
    Prices <- MCPrices
    Deltas <- MCDeltas
    MaxQuantity = 2
    OtherPrice = 2
    NoPrice = NoPrice
    Steps = {da, db}
    MaxCopies = 2
    MaxFields = 2
    Wordings = {ta, tb}
    MaxVersions = 2
    Bays = 2
    Attempts = {k1}
    Choices = {ca, cb}
    Details = {da, db}
    MaxRequests = 2
    Capacity = 2
SPECIFICATION MCSpec
SYMMETRY Alike
CONSTRAINT OneEditEach
CHECK_DEADLOCK FALSE
INVARIANTS  DepositIsChargeable BookingsKeepTheirPrice SwitchIsExact
           AgreementsStand 
