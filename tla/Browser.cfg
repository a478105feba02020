SPECIFICATION FairSpec
CONSTANTS
    w1 = w1
    w2 = w2
    Worker <- Two
    MaxTiers = 2
INVARIANTS
    ChromeIsClosed
    ThrottlingIsHonest
    NoTabWithoutChrome
PROPERTY TiersEnd
