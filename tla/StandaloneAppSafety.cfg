SPECIFICATION Spec
CONSTANTS
    None = None
    u1 = u1
    u2 = u2
    news = news
    all = all
    Users = {u1, u2}
    Listed = {news}
    AllChannels = all
    PageSize = 2
    MaxTotal = 3
    MaxHistory = 2
    MaxSuperseded = 1
SYMMETRY Symmetry
INVARIANTS
    SignedOutIsClean
    PageIsSelected
    RestIsUsable
    PageIsRestorable
    PagingIsCurrent
