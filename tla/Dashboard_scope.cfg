\* The reload of a synchronisation against a change of the filters: the page
\* keeps the data of the selected scope, as its comments promise.
SPECIFICATION DashboardSpec
CONSTANTS
    Views <- MCViews
    BadView = "bad view"
    ShopAccounts <- MCShopAccounts
    NoShop = "no shop"
    MaxSelections = 1
    MaxLoads = 3
    MaxSyncClicks = 1
PROPERTY SelectionKeepsItsData
CHECK_DEADLOCK FALSE
