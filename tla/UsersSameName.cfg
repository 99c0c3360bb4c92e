\* Two requests create the same name.
SPECIFICATION SameNameSpec
CONSTANTS
    i1 = i1
    i2 = i2
    i3 = i3
    i4 = i4
    ann = ann
    bob = bob
    cat = cat
    boot = boot
    r1 = r1
    r2 = r2
    Ids <- MCIds
    Names <- MCNames
    Reqs <- MCReqs
    Seeds <- MCSeeds
    Legacy <- MCLegacy
    Boot = boot
    MaxActs = 2
INVARIANT NamesUnique
CHECK_DEADLOCK FALSE
