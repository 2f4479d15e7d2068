SPECIFICATION WindowFairSpec
CONSTANTS
    Messages <- MCMessages
    MaxTyped = 2
    MaxPosts = 1
    Empty = Empty
    Blank = Blank
INVARIANT ScrolledOrHidden SentOnce
PROPERTY EveryMessageDrawn FocusReturns
CHECK_DEADLOCK FALSE
