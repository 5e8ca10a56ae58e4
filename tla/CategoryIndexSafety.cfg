SPECIFICATION Spec
CONSTANTS
    r1 = r1
    r2 = r2
    ann = ann
    news = news
    t1 = t1
    t2 = t2
    None = None
    Requests = {r1, r2}
    Users = {ann}
    Channels = {news}
    Categories = {"News"}
    Tuners = {t1, t2}
    CategoryOf <- MCCategoryOf
    Calls <- MCCalls
    Lineups <- MCLineups
    CacheDuration = 2
    DegradedCacheDuration = 1
    MaxTime = 2
    MaxChanges = 1
SYMMETRY MCSymmetry
INVARIANTS
    OneBuilder
    NoRedundantRead
    CacheMatchesLastRead
    HealthyDiagnosticsAreCurrent
PROPERTIES
    CurrentVisibility
    ImplementsService
