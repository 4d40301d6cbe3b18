SPECIFICATION Spec
CONSTANTS
    Names <- NamesDef
    Contained <- ContainedDef
    Trials <- TrialsDef
    Edits <- EditsDef
    Archetypes = {"basic", "user"}
    MaxEdits = 2
    FieldDecls <- FieldDeclsDef
    ControllerSets <- ControllerSetsDef
CHECK_DEADLOCK FALSE
INVARIANTS
    
    TreeOfOneLoad
    MigrationsDeliver
    RowsObeyRules
    
PROPERTIES
    FailureChangesNothing
