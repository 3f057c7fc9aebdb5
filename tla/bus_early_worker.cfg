SPECIFICATION Spec
CONSTANTS
    gui = gui
    jabber = jabber
    sound = sound
    Plugins <- MCPlugins
    Modules <- MCModules
    Kind <- MCKind
    Names <- MCNames
    Registers <- MCRegisters
    Emissions <- MCEmissions
    WorkerEmissions <- MCWorkerEmissions
    Workers = {w1, w2}
    EarlyWorkers = TRUE
    Managers = {gui}
    Removable = {sound}
    UnloadDepth = 1
    MaxSignals = 3
    MaxDepth = 4
INVARIANTS
    DataOutlivesDelivery
