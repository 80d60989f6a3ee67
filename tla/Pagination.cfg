\* Up to four rows of two dates, pages of one and two rows (the default and
\* the cap are both 2), and up to two rows added or removed by others.
SPECIFICATION Spec
CONSTANTS
    Ids = {1, 2, 3, 4}
    Dates = {1, 2}
    Tags = {"x", "y"}
    AnyTag = "any"
    Filters <- MCFilters
    FirstTokens <- MCFirstTokens
    PageSizes <- MCPageSizes
    DefaultPageSize = 2
    kMaxPageSize = 3
    IntMax = 9
    Seeds <- MCSeeds
    MaxWrites = 2
INVARIANTS
    TypeOK
    QuietWalkIsExact
    QuietWalkCounts
    BoundedDrift
PROPERTIES
    WalkEnds
