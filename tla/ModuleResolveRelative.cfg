CONSTANTS
    Cwd <- Home
    Mains <- AllMains
    Bases <- AllBases
    Imports <- AllImports
    Files <- AllFiles
    MaxLoads = 2
SPECIFICATION Spec
PROPERTY RelativeToMain
CHECK_DEADLOCK FALSE
