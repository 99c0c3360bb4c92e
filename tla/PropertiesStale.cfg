\* The file changes after the form was loaded.
SPECIFICATION PropertiesSpec
CONSTANTS
    s1 = s1
    s2 = s2
    r1 = r1
    r2 = r2
    a = a
    b = b
    other = other
    d = d
    f = f
    up = up
    g1 = g1
    g2 = g2
    w1 = w1
    w2 = w2
    title = title
    track = track
    user = user
    Slots <- MCSlots
    MaxActs = 3
    SocketActs = 7
    Rows <- MCRows
    Me = r1
    Keys <- MCKeys
    Known <- MCKnown
    Other = other
    Values = {0, 1}
    Broken = broken
    Files <- MCFiles
    Names <- MCNames
    Up = up
    Texts = {"text"}
    Given <- MCGiven
    Tree <- MCTree
    Setups <- MCSetups
    Groups <- MCGroups
    Track = track
    User = user
    Weights <- MCWeights
    Titles <- MCTitles
    Perm = perm
    Prefix = prefix
    Meta = meta
    Gone = gone
    None = none
    Api <- MCApi
    HistorySize = 1
    Kept = 2
PROPERTY PropertiesSaveWritesOnlyEdits
CHECK_DEADLOCK FALSE
