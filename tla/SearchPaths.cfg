\* See README.md for what the bounds are and why they are enough.
SPECIFICATION Spec
CONSTANTS
    None = None
    Order <- ParentFirst
    Keys <- NamesEverywhere
    SearchKeys <- Models
    Filters <- SmallFilters
    Documents <- SmallDocuments
    Cut <- OwnerInOwnership
    Access <- OkOnTop
    RootAccess = TRUE
    NonSoftDelete = {}
    MaxRequests = 2
INVARIANTS
    OnlyFilterable JoinIsExact ReuseOnlyNarrows NothingHiddenIsShown
\* Every request is answered.
CHECK_DEADLOCK FALSE
