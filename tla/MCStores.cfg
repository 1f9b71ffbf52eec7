\* The stores' instances; TTL, Budget and the other times are in ticks.
SPECIFICATION StoresSpec
CONSTANTS
    Urls = {u1}
    Readers = {r1}
    Ingests = {i1}
    Jobs = {j1}
    IngestModes = {"when_stale"}
    TTL = 1
    NegativeTTL = 0
    ActiveWindow = 1
    Budget = 1
    MaxVersion = 2
    PageUrls = {"a", "b"}
    Requested = "a"
    HostOf <- TwoHosts
    Addresses = {"pub", "prv"}
    Public = {"pub"}
    PageContents = {"c", "d"}
    EtagOf <- SharedEtags
    MaxDate = 2
    MaxRedirects = 1
    SdmNames = {1, 2, 3}
    MaxIndex = 2
    ColumnsLimit = 1
    People = {p1, p2, p3}
    Orcids = {"o"}
    Credited = {"d"}
    KeyIds = {"k", "l"}
    Callers = {q1, q2}
    KeysTTL = 1
    Cooldown = 1
    Objects = {"x", "y"}
    MaxBuilds = 2
    MaxQueue = 1
    MaxLag = 3
    RowKeys = {1, 2, 3, 4}
    PageLimit = 2
    Docs <- SharingKeys
    ResourceIds = {1, 2}
SYMMETRY Interchangeable
INVARIANTS
    StoresTypeOK
    AgeIsHonest
    FreshIsNotBlamed
    StoredIsServed
    SocketsAreGuarded
    PagesShowWhatStays
    RotationIsInvisible
    SearchFindsTheLatest
PROPERTIES
    ContentSurvives
    RefreshNeverReverts
    DueIsSettled
    MergesLoseNothing
    ReingestIsUpdate
