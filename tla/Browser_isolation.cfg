SPECIFICATION Spec
CONSTANTS
    w1 = w1
    w2 = w2
    Worker <- Two
    MaxTiers = 2
INVARIANT RunsAreIsolated
