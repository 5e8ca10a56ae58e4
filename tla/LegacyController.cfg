SPECIFICATION MCSpec
CONSTANTS
    None = None
    Categories = {news, films}
    Limits = {1, 2}
    MaxTotal = 3
    MaxLoads = 2
SYMMETRY Symmetry
INVARIANTS
    PageIsSelected
    PendingIsAnswerable
    SpinnerMeansWaiting
    BackIsForCategory
    OverlayPageIsOwn
    OverlayOneRequest
    OverlaySpinnerEnds
PROPERTIES
    SilentAfterDestroy
CHECK_DEADLOCK FALSE
