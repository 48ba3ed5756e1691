CONSTANTS
    Callers = {a, b}
    Migrations <- MCMigrations
    Script <- MCScript
    Required = {"CapacitySnapshot", "DashboardSetting", "Subscriptions", "VmSkuCatalog"}
    DacpacTables = {"CapacitySnapshot", "DashboardSetting", "Subscriptions", "VmSkuCatalog"}
    Roles = {"reader"}
    Requests = {r1, r2, r3}
    RetryLimit = 1
    MaxPools = 3
    MaxOutages = 2
    Tabs = {t1, t2, t3}
    MaxPending = 2
    MaxSwitches = 2
    SkuNames = {sku}
    SeedSkus = {sku}
    Readers = {r1, r2}
    Ttl = 1
    MaxTime = 4
    Keys = {1, 2}
    Subscriptions = {"s", "t"}
    PageSizes = {1, 3}
    MinSize = 2
    MaxSize = 4
    MaxCaptures = 1
    Regions = {"east", "west"}
    Models = {m}
    Interval = 2
    MaxMinutes = 4
    Places <- MCPlaces
    Families = {"f"}
    SkuOrder <- MCSkuOrder
    Quotas <- MCQuotas
    MaxBatches = 2
    Users = {"u1", "u2", "u3"}
    MaxStarts = 1
    Members = {"m1", "m2"}
    Locations = {"east", "west"}
    Width = 2
SPECIFICATION Spec
INVARIANTS
    HistoryIsTrue
    OkMeansProvisioned
    OnlyTheGlobalPoolIsOpen
    PendingSignInsAreHonoured
    AnswersMissOnlyTheNew
    PagesMeet
    QuotaCountedOnce
    WaitersGetAWholeRuntime
    EmptyReportMeansNoDeficit
PROPERTIES
    CatalogNeverGoesBack
CHECK_DEADLOCK FALSE
