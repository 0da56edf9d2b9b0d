SPECIFICATION AllSpec
CONSTANTS
    One = one
    Two = two
    MaxMessages = 4
    Requests = {r1, r2, r3}
    MaxFailures = 1
    Ids = {1, 2, 3, 4}
    MaxInstant = 2
    PerMilli = 2
    MaxKey = 3
    Limit = 2
    NoCursor = none
    MaxChanges = 2
    MaxArticles = 2
    Slugs = {s, t}
    NoSlug = noslug
    MaxPictures = 2
    Editors = {e1, e2}
    MaxMishaps = 1
SYMMETRY Symmetry
INVARIANTS
    TypesOK
    UnreadCountExplained
    LastMessageIsNewest
    PagesExplained
    PicturesShown
