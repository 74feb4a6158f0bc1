CONSTANTS
    Interval = 2
    MaxWall = 4
    MaxTime = 6
SPECIFICATION Spec
INVARIANT TypeOK
PROPERTY NotBelowAdoptedTs
