\* What must eventually happen in each component, one at a time.
SPECIFICATION PromisesSpec
CONSTANTS
    Parts = {"sessions", "amazon", "store", "fetch", "cycle", "batch", "dashboard", "panels",
             "all_rows", "ml", "runs"}
    \* sessions
    AuthTabs = {t1}
    AuthClients = {c1}
    AuthUsers = {u1}
    MaxSessions = 2
    MaxAuthFaults = 1
    \* Amazon tokens
    AmzCalls = {k1, k2}
    NoCall = NoCall
    MaxGrants = 2
    MaxTokens = 1
    MaxAmzFaults = 1
    \* order store
    o1 = o1
    o2 = o2
    StoredOrders = {o1, o2}
    Writers = {w1, w2}
    StampOf <- MCShortStamps
    MaxEvents = 2
    MaxLots = 2
    MaxStoreFaults = 1
    \* fetches
    MaxPages = 4
    PageSize = 2
    OrderCap = 5
    PageCap = 3
    OffsetCap = 6
    MaxRetries = 2
    MaxRenewals = 1
    \* cycle and renewals
    CycleInstances = {i1, i2}
    SyncedAccounts = {a1, a2}
    NoInstance = NoInstance
    MaxCycleFaults = 1
    RenewedAccounts = {a1, a2, a3, a4}
    NeverRenewed = {a1}
    BatchSize = 2
    \* pages
    Views = {v1, v2}
    BadView = BadView
    ShopAccounts = {a1}
    NoShop = NoShop
    MaxSelections = 2
    MaxLoads = 2
    MaxSyncClicks = 1
    PanelAccounts = {a1}
    MaxReads = 2
    MaxClicks = 1
    MaxChunks = 1
    MaxPageFaults = 1
    PageAccounts = {1, 2, 3, 4}
    Connected = {1, 3, 4}
    \* periods
    DayLength = 3
    SpOffset = 1
    MonthLengths <- MCMonths
    FirstInstant = 16
    LastInstant = 25
    DefaultDays = 3
    WeekDays = 2
    MaxRangeDays = 4
    DateTexts <- MCTexts
    \* orders and figures
    FetchedOrders = 3
    ShipmentIds = {h1, h2, h3}
    NoShipment = NoShipment
    MaxLookups = 2
    OrderAmounts <- MCAmounts
    OrderCurrencies = {"BRL", "USD"}
    OrderQuantities = {2}
    AmazonStatuses = {"SHIPPED", "CANCELLED"}
    MaxItems = 2
    MaxCents = 250
    AnalyticsAccounts <- MCAccounts
    FirstOrders <- MCFirst
    NewOrders <- MCNew
    Scopes <- MCScopes
    PanelSets <- MCPanels
    TopLimit = 2
    NoSku = NoSku
    MaxCommits = 2
    Sources = {s1, s2}
    Horizon = 4
    MaxRuns = 3
    \* Mercado Livre connection
    MlUsers = {u1}
    MlJob = MlJob
    MlInstances = {i1}
    MlStarts = {"new", "legacy"}
    MlLostAnswers = {"temporary_failure", "outcome_unknown"}
    MlRequests = 1
    MlTokens = 3
    MlCalls = 2
    MlFaults = 2
    \* synchronisations of an account
    RunCallers = {c1, c2}
    CycleEnabled = TRUE
    NeverSynced = NeverSynced
    SyncRunsMax = 2
    SyncRunFaults = 1
PROPERTIES CallsEnd NobodyIsLeftOut
CHECK_DEADLOCK FALSE
