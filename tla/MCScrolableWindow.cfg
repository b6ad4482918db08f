CONSTANTS
    Ids = {0, 1, 2, 3}
    Heights = {1, 2, 3}
SPECIFICATION Spec
INVARIANTS Inv NothingLeftOut CursorStays
PROPERTY FollowShowsNewest
