SPECIFICATION Spec
CONSTANTS
    NbClasses = 3
    Setups <- MCSetups
INVARIANTS
    CertifiedIsStable
    FewVotesTouched
    SeenAlike
