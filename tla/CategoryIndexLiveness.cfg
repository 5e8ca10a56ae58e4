SPECIFICATION FairSpec
CONSTANTS
    r1 = r1
    r2 = r2
    ann = ann
    news = news
    t1 = t1
    t2 = t2
    None = None
    Requests = {r1, r2}
    Users = {ann}
    Channels = {news}
    Categories = {"News"}
    Tuners = {t1}
    CategoryOf <- MCCategoryOf
    Calls <- MCMixedCalls
    Lineups <- MCLineups
    CacheDuration = 1
    DegradedCacheDuration = 1
    MaxTime = 1
    MaxChanges = 0
PROPERTIES
    EveryRequestAnswered
