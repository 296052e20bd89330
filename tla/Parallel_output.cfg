SPECIFICATION Spec
CONSTANTS
    Tasks <- MCTasks
    Root = "root"
    NoProcess = NoProcess
    Trees <- MCTrees
    BufferSize = 2
    MaxKills = 1
INVARIANT
    MessagesReachConsole
