SPECIFICATION Spec
CONSTANTS
    bitbake = bitbake
    Sources <- OneSource
    Runs = {r1, r2}
    Modes = {"online", "offline", "check"}
    InitialTrees <- SomeTrees
    UserActs = TRUE
INVARIANTS
    TypeOK
    SuccessMeansReady
    RefusedOnlyWhenHurt
    LinesKept
PROPERTIES
    UserWorkKept
    ReadyIsStable
SYMMETRY Symmetry
