SPECIFICATION Spec
CONSTANTS
    news = news
    films = films
    n1 = n1
    n2 = n2
    n3 = n3
    f1 = f1
    None = None
    Categories = {news, films}
    Channels = {n1, n2, n3, f1}
    Lineup <- MCLineup
    PageSize = 2
    Starts = {0}
    MaxHistory = 3
INVARIANTS
    ChannelFocusRestored
