SPECIFICATION Spec
CONSTANTS
    Size = 3
    BatchSize = 2
    NbEpochs = 2
    MaxCalls = 2
    AllOfThem = {TRUE, FALSE}
    Attacks <- MCAttacks
    Generators <- MCGenerators
CHECK_DEADLOCK FALSE
INVARIANTS
    OwnLabels
    EpochCovers
    Rotated
    AllAdversarial
PROPERTIES
    IndexErrorNeedsBrokenCall
