CONSTANT MaxFaults = 2
SPECIFICATION Spec
INVARIANTS
    SuccessIsTrueIfSound
    HalfStyledLostTriggers
    BackupTellsIfNothingFails
