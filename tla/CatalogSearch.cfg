CONSTANTS
    r1 = r1
    r2 = r2
    r3 = r3
    wide = wide
    tagged = tagged
    f1 = f1
    f2 = f2
    Nothing = Nothing
    Entries = {r1, r2, r3}
    Forms = {f1, f2}
    Embedded = {f1}
    Searches = {wide}
    Listings = {tagged}
    Matching <- MCMatching
    Relevance <- MCRelevance
    PoolSize = 2
    MaxLimit = 2
    Asked = {0}
    InitialRows <- MCInitialRows
    InitialForm <- MCInitialForm
    MaxChanges = 2
SPECIFICATION SearchSpec
INVARIANTS
    NothingSkipped
    RankingIsHonest
PROPERTY
    PagesEnd
CHECK_DEADLOCK FALSE
