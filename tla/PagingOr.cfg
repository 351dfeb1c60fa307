\* See README.md for what the bounds are and why they are enough.
SPECIFICATION Spec
CONSTANTS
    None = None
    Ids <- ThreeIds
    Contents <- OneKey
    Sort <- ByKey
    Sortable = {1}
    Populated = {}
    DefaultField = 1
    Projected = {1}
    Limit = 1
    ByNumber = FALSE
    OrFilter = TRUE
    CursorStays = TRUE
    MaxWrites = 0
    MaxPage = 6
PROPERTIES
    FilterHolds
\* The client has all pages.
CHECK_DEADLOCK FALSE
