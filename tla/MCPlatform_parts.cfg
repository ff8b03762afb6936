\* Every component that shares no state with the others, one at a time.
SPECIFICATION PlatformSpec
CONSTANTS
    Parts = {"sessions", "amazon", "store", "fetch", "cycle", "batch", "dashboard", "panels",
             "all_rows", "periods", "shipments", "mapping", "analytics", "coverage"}
    \* sessions
    AuthTabs = {t1}
    AuthClients = {c1, c2}
    AuthUsers = {u1}
    MaxSessions = 2
    MaxAuthFaults = 1
    \* Amazon tokens
    AmzCalls = {k1, k2}
    NoCall = NoCall
    MaxGrants = 2
    MaxTokens = 2
    MaxAmzFaults = 1
    \* order store
    o1 = o1
    o2 = o2
    StoredOrders = {o1, o2}
    Writers = {w1, w2}
    StampOf <- MCStamps
    MaxEvents = 3
    MaxLots = 2
    MaxStoreFaults = 1
    \* fetches
    MaxPages = 4
    PageSize = 2
    OrderCap = 5
    PageCap = 3
    OffsetCap = 6
    MaxRetries = 2
    MaxRenewals = 1
    \* cycle and renewals
    CycleInstances = {i1, i2}
    SyncedAccounts = {a1, a2}
    NoInstance = NoInstance
    MaxCycleFaults = 1
    RenewedAccounts = {a1, a2, a3, a4}
    NeverRenewed = {a1}
    BatchSize = 2
    \* pages
    Views = {v1, v2}
    BadView = BadView
    ShopAccounts = {a1}
    NoShop = NoShop
    MaxSelections = 2
    MaxLoads = 3
    MaxSyncClicks = 1
    PanelAccounts = {a1, a2}
    MaxReads = 1
    MaxClicks = 1
    MaxChunks = 0
    MaxPageFaults = 0
    PageAccounts = {1, 2, 3, 4}
    Connected = {1, 3, 4}
    \* periods
    DayLength = 3
    SpOffset = 1
    MonthLengths <- MCMonths
    FirstInstant = 16
    LastInstant = 25
    DefaultDays = 3
    WeekDays = 2
    MaxRangeDays = 4
    DateTexts <- MCTexts
    \* orders and figures
    FetchedOrders = 3
    ShipmentIds = {h1, h2, h3}
    NoShipment = NoShipment
    MaxLookups = 2
    OrderAmounts <- MCAmounts
    OrderCurrencies = {"BRL", "USD"}
    OrderQuantities = {2, 3}
    AmazonStatuses = {"SHIPPED", "CANCELLED"}
    MaxItems = 2
    MaxCents = 250
    AnalyticsAccounts <- MCAccounts
    FirstOrders <- MCFirst
    NewOrders <- MCNew
    Scopes <- MCScopes
    PanelSets <- MCPanels
    TopLimit = 2
    NoSku = NoSku
    MaxCommits = 2
    Sources = {s1, s2}
    Horizon = 4
    MaxRuns = 3
INVARIANTS SessionsInv AmazonInv StoreInv FetchInv ShipmentsInv MappingInv RevenueIsProceeds
    ScheduleInv PagesInv AnalyticsInv QuietAnswerAddsUp CoverageTold
PROPERTIES StoreNeverRegresses AnswersInOrder
CHECK_DEADLOCK FALSE
