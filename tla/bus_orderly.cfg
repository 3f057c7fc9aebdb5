SPECIFICATION FairSpec
CONSTANTS
    gui = gui
    jabber = jabber
    sound = sound
    Plugins <- MCPlugins
    Modules <- MCModules
    Kind <- MCKind
    Names <- MCNames
    Registers <- MCRegisters
    Emissions <- MCEmissions
    WorkerEmissions <- MCWorkerEmissions
    Workers = {w1, w2}
    EarlyWorkers = FALSE
    Managers = {gui}
    Removable = {sound}
    UnloadDepth = 1
    MaxSignals = 3
    MaxDepth = 5
INVARIANTS
    NoFault
    NothingLeftBehind
PROPERTIES
    DeliveredOnce
    ThreadSignalsServed
