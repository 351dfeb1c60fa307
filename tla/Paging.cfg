\* See README.md for what the bounds are and why they are enough.
SPECIFICATION FairSpec
CONSTANTS
    None = None
    Ids <- ThreeIds
    Contents <- TwoKeys
    Sort <- ByBoth
    Sortable = {1, 2}
    Populated = {}
    DefaultField = 1
    Projected = {1, 2}
    Limit = 1
    ByNumber = TRUE
    OrFilter = FALSE
    CursorStays = TRUE
    MaxWrites = 2
    MaxPage = 9
INVARIANTS
    SteadySeenOnce NothingSkipped TotalIsCount
PROPERTIES
    PageFollowsCursor PagesAreSorted PagingEnds
\* The client has all pages.
CHECK_DEADLOCK FALSE
