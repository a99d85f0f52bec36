CONSTANTS
    Size = 4
    Bodies <- SomeBodies
    MaxFaults = 2
SPECIFICATION MenuSpec
INVARIANTS
    MenuIsTrue
PROPERTIES
    ImplementsUpdateFile
    GoesOnlyIfAsked
