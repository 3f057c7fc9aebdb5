SPECIFICATION Spec
CONSTANTS
    gui = gui
    jabber = jabber
    sound = sound
    Plugins <- MCPlugins
    Modules <- MCModules
    Kind <- MCKind
    Names <- MCNames
    Registers <- MCRegisters
    Emissions <- MCFullEmissions
    WorkerEmissions <- MCWorkerEmissions
    Workers = {w1, w2}
    EarlyWorkers = TRUE
    Managers = {gui}
    Removable = {sound, jabber}
    UnloadDepth = 4
    MaxSignals = 3
    MaxDepth = 4
CHECK_DEADLOCK FALSE
INVARIANTS
    PipeMatchesQueue
PROPERTIES
    ImplementsMailbox
