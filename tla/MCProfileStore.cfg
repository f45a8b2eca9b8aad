CONSTANTS
    Writers = {server, gui}
    Changes = {a, b, c}
    Load = load
    RETENTION = 3
    ATTEMPTS = 2
    Faults = 2
SPECIFICATION Spec
SYMMETRY Interchangeable
INVARIANTS
    PromisesSurvive
    ReceiptsAreExact
PROPERTIES
    VisibleGrows
