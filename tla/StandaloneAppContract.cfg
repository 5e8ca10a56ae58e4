SPECIFICATION Spec
CONSTANTS
    None = None
    u1 = u1
    news = news
    all = all
    Users = {u1}
    Listed = {news}
    AllChannels = all
    PageSize = 2
    MaxTotal = 3
    MaxHistory = 2
    MaxSuperseded = 1
INVARIANTS
    UnsupportedContractStopsCategoryCalls
