SPECIFICATION Spec
CONSTANTS
    Plans <- ThePlans
    Crystal <- CrystalOf
INVARIANTS
    Centred
    ModeAgrees
    CorrectionApplied
    RepeaterDiscipline
    RecursionBounded
    UnplugTold
CHECK_DEADLOCK FALSE
